---- MODULE Spec2Model ----
(***************************************************************************)
(* Model of the Yandex Disk Telegram bot: the path codec and file-browser  *)
(* keyboard (modules/yandex/keyboards.py), the upload pipeline and the     *)
(* navigation handlers (modules/yandex/handlers.py), and the remote-store  *)
(* client (modules/yandex/service.py).                                     *)
(*                                                                         *)
(* Strings are sequences of byte values: a path is the sequence of its     *)
(* UTF-8 bytes, a callback_data is the sequence of its (ASCII) characters. *)
(***************************************************************************)
EXTENDS Integers, Sequences, FiniteSets, TLC

(***************************************************************************)
(* String literals of the source, as byte sequences.                       *)
(***************************************************************************)
\* "nav_open_"
S_nav_open == <<110, 97, 118, 95, 111, 112, 101, 110, 95>>
\* "nav_page_"
S_nav_page == <<110, 97, 118, 95, 112, 97, 103, 101, 95>>
\* "nav_info_"
S_nav_info == <<110, 97, 118, 95, 105, 110, 102, 111, 95>>
\* "nav_publish_"
S_nav_publish == <<110, 97, 118, 95, 112, 117, 98, 108, 105, 115, 104, 95>>
\* "nav_delete_"
S_nav_delete == <<110, 97, 118, 95, 100, 101, 108, 101, 116, 101, 95>>
\* "nav_up_"
S_nav_up == <<110, 97, 118, 95, 117, 112, 95>>
\* "nav_select_"
S_nav_select == <<110, 97, 118, 95, 115, 101, 108, 101, 99, 116, 95>>
\* "nav_close"
S_nav_close == <<110, 97, 118, 95, 99, 108, 111, 115, 101>>
\* "noop"
S_noop == <<110, 111, 111, 112>>
\* "nav_page_100_"
S_nav_page_100 == <<110, 97, 118, 95, 112, 97, 103, 101, 95, 49, 48, 48, 95>>
\* "p:"
S_pc == <<112, 58>>
\* "h:"
S_hc == <<104, 58>>
\* "nav_confirm_del_yes"
S_nav_confirm_del_yes == <<110, 97, 118, 95, 99, 111, 110, 102, 105, 114, 109, 95, 100, 101, 108, 95, 121, 101, 115>>
\* "nav_confirm_del_no"
S_nav_confirm_del_no == <<110, 97, 118, 95, 99, 111, 110, 102, 105, 114, 109, 95, 100, 101, 108, 95, 110, 111>>
\* "view_all_disk"
S_view_all_disk == <<118, 105, 101, 119, 95, 97, 108, 108, 95, 100, 105, 115, 107>>
\* "unnamed_file"
S_unnamed_file == <<117, 110, 110, 97, 109, 101, 100, 95, 102, 105, 108, 101>>

(***************************************************************************)
(* Paths used as inputs.  NamedPaths is closed under the parent            *)
(* computation of browse_directory.                                        *)
(***************************************************************************)
\* "/"
P_root == <<47>>
\* "/Docs"
P_docs == <<47, 68, 111, 99, 115>>
\* "/a?b>c"
P_qmark == <<47, 97, 63, 98, 62, 99>>
\* "/Фото"
P_cyr == <<47, 208, 164, 208, 190, 209, 130, 208, 190>>
\* "/a/b/c/d"
P_deep == <<47, 97, 47, 98, 47, 99, 47, 100>>
\* "/Archive/Photos/2024/Vacation-Italy/"
P_vacdir == <<47, 65, 114, 99, 104, 105, 118, 101, 47, 80, 104, 111, 116, 111, 115, 47, 50, 48, 50, 52, 47, 86, 97, 99, 97, 116, 105, 111, 110, 45, 73, 116, 97, 108, 121, 47>>
\* "disk:/Photos-2024-Vacation-in-Italy"
P_vac == <<100, 105, 115, 107, 58, 47, 80, 104, 111, 116, 111, 115, 45, 50, 48, 50, 52, 45, 86, 97, 99, 97, 116, 105, 111, 110, 45, 105, 110, 45, 73, 116, 97, 108, 121>>
\* "disk:/Photos-2024-Vacation-in-Italy/IMG_049312.jpg"
P_img1 == <<100, 105, 115, 107, 58, 47, 80, 104, 111, 116, 111, 115, 45, 50, 48, 50, 52, 45, 86, 97, 99, 97, 116, 105, 111, 110, 45, 105, 110, 45, 73, 116, 97, 108, 121, 47, 73, 77, 71, 95, 48, 52, 57, 51, 49, 50, 46, 106, 112, 103>>
\* "disk:/Photos-2024-Vacation-in-Italy/IMG_143770.jpg"
P_img2 == <<100, 105, 115, 107, 58, 47, 80, 104, 111, 116, 111, 115, 45, 50, 48, 50, 52, 45, 86, 97, 99, 97, 116, 105, 111, 110, 45, 105, 110, 45, 73, 116, 97, 108, 121, 47, 73, 77, 71, 95, 49, 52, 51, 55, 55, 48, 46, 106, 112, 103>>
\* "disk:/Photos-2024-Vacation-in-Italy/IMG_000001.jpg"
P_img3 == <<100, 105, 115, 107, 58, 47, 80, 104, 111, 116, 111, 115, 45, 50, 48, 50, 52, 45, 86, 97, 99, 97, 116, 105, 111, 110, 45, 105, 110, 45, 73, 116, 97, 108, 121, 47, 73, 77, 71, 95, 48, 48, 48, 48, 48, 49, 46, 106, 112, 103>>
\* "disk:/Photos-2024-Vacation-in-Italy/Day-01-Arrival"
P_sub == <<100, 105, 115, 107, 58, 47, 80, 104, 111, 116, 111, 115, 45, 50, 48, 50, 52, 45, 86, 97, 99, 97, 116, 105, 111, 110, 45, 105, 110, 45, 73, 116, 97, 108, 121, 47, 68, 97, 121, 45, 48, 49, 45, 65, 114, 114, 105, 118, 97, 108>>
\* "/Docs/report.pdf"
P_report == <<47, 68, 111, 99, 115, 47, 114, 101, 112, 111, 114, 116, 46, 112, 100, 102>>
\* "/a/b/c"
P_anc1 == <<47, 97, 47, 98, 47, 99>>
\* "/Archive/Photos/2024"
P_anc2 == <<47, 65, 114, 99, 104, 105, 118, 101, 47, 80, 104, 111, 116, 111, 115, 47, 50, 48, 50, 52>>
\* "disk:"
P_disk == <<100, 105, 115, 107, 58>>
\* "/a/b"
P_anc3 == <<47, 97, 47, 98>>
\* "/Archive/Photos"
P_anc4 == <<47, 65, 114, 99, 104, 105, 118, 101, 47, 80, 104, 111, 116, 111, 115>>
\* "/a"
P_anc5 == <<47, 97>>
\* "/Archive"
P_anc6 == <<47, 65, 114, 99, 104, 105, 118, 101>>

NamedPaths == {P_root, P_docs, P_qmark, P_cyr, P_deep, P_vacdir, P_vac, P_img1, P_img2, P_img3, P_sub, P_report, P_anc1, P_anc2, P_disk, P_anc3, P_anc4, P_anc5, P_anc6}

\* XPath(n) is "/" followed by n-1 times "x": a path of exactly n bytes.
RECURSIVE XPath(_)
XPath(n) == IF n <= 1 THEN <<47>> ELSE XPath(n - 1) \o <<120>>

\* hashlib.md5(p).hexdigest()[:8] for the named paths (values computed with
\* hashlib); P_img1 and P_img2 are two siblings whose digests agree.
MD5Named(p) ==
  CASE p = P_root -> <<54, 54, 54, 54, 99, 100, 55, 54>> \* 6666cd76
       [] p = P_docs -> <<97, 102, 101, 101, 101, 97, 56, 97>> \* afeeea8a
       [] p = P_qmark -> <<49, 51, 54, 98, 51, 53, 51, 50>> \* 136b3532
       [] p = P_cyr -> <<99, 98, 53, 51, 97, 98, 53, 53>> \* cb53ab55
       [] p = P_deep -> <<50, 99, 97, 57, 57, 57, 102, 100>> \* 2ca999fd
       [] p = P_vacdir -> <<97, 53, 51, 49, 102, 53, 98, 49>> \* a531f5b1
       [] p = P_vac -> <<100, 101, 101, 50, 53, 51, 50, 48>> \* dee25320
       [] p = P_img1 -> <<102, 53, 56, 53, 51, 99, 53, 53>> \* f5853c55
       [] p = P_img2 -> <<102, 53, 56, 53, 51, 99, 53, 53>> \* f5853c55
       [] p = P_img3 -> <<50, 101, 101, 52, 55, 102, 50, 56>> \* 2ee47f28
       [] p = P_sub -> <<54, 101, 100, 101, 99, 51, 52, 55>> \* 6edec347
       [] p = P_report -> <<101, 97, 53, 48, 51, 55, 101, 99>> \* ea5037ec
       [] p = P_anc1 -> <<55, 55, 101, 51, 98, 56, 98, 51>> \* 77e3b8b3
       [] p = P_anc2 -> <<51, 101, 55, 102, 51, 57, 100, 51>> \* 3e7f39d3
       [] p = P_disk -> <<48, 97, 98, 101, 54, 102, 50, 97>> \* 0abe6f2a
       [] p = P_anc3 -> <<97, 101, 101, 51, 49, 100, 55, 49>> \* aee31d71
       [] p = P_anc4 -> <<50, 56, 56, 57, 50, 49, 101, 97>> \* 288921ea
       [] p = P_anc5 -> <<48, 54, 51, 57, 55, 54, 55, 102>> \* 0639767f
       [] p = P_anc6 -> <<51, 97, 101, 55, 57, 55, 54, 102>> \* 3ae7976f

\* hashlib.md5(XPath(n)).hexdigest()[:8], n = 1..45
MD5XTable == <<
  <<54, 54, 54, 54, 99, 100, 55, 54>>,
  <<99, 99, 56, 55, 53, 53, 54, 48>>,
  <<48, 98, 57, 51, 49, 54, 53, 102>>,
  <<57, 51, 51, 57, 52, 100, 53, 57>>,
  <<98, 55, 102, 99, 101, 54, 48, 100>>,
  <<48, 53, 54, 51, 50, 50, 48, 51>>,
  <<102, 48, 98, 49, 102, 54, 55, 55>>,
  <<57, 101, 49, 50, 98, 54, 54, 48>>,
  <<50, 53, 53, 55, 57, 102, 51, 100>>,
  <<51, 53, 100, 56, 50, 102, 57, 53>>,
  <<56, 48, 51, 53, 54, 53, 48, 52>>,
  <<48, 54, 51, 55, 99, 100, 97, 100>>,
  <<53, 97, 100, 100, 101, 52, 54, 51>>,
  <<50, 55, 48, 99, 52, 54, 49, 49>>,
  <<98, 100, 102, 100, 53, 56, 56, 100>>,
  <<52, 56, 50, 99, 54, 97, 52, 49>>,
  <<55, 48, 54, 48, 54, 101, 100, 101>>,
  <<102, 50, 52, 52, 101, 55, 49, 55>>,
  <<100, 51, 48, 53, 55, 57, 98, 55>>,
  <<55, 53, 54, 102, 98, 53, 53, 54>>,
  <<50, 100, 50, 100, 99, 101, 98, 49>>,
  <<97, 53, 49, 57, 57, 48, 51, 50>>,
  <<52, 48, 55, 54, 97, 56, 97, 102>>,
  <<57, 98, 55, 52, 100, 53, 100, 52>>,
  <<55, 49, 54, 98, 56, 53, 55, 97>>,
  <<54, 57, 98, 97, 48, 50, 54, 99>>,
  <<53, 52, 53, 55, 97, 50, 54, 48>>,
  <<100, 53, 99, 97, 56, 99, 99, 55>>,
  <<100, 49, 102, 101, 54, 50, 51, 50>>,
  <<100, 48, 52, 56, 97, 50, 98, 50>>,
  <<56, 101, 54, 53, 49, 54, 48, 50>>,
  <<97, 54, 51, 99, 56, 49, 55, 51>>,
  <<100, 49, 56, 52, 53, 97, 102, 49>>,
  <<99, 51, 52, 48, 97, 56, 56, 98>>,
  <<56, 56, 100, 98, 102, 54, 102, 49>>,
  <<55, 51, 56, 54, 102, 51, 56, 57>>,
  <<48, 50, 102, 99, 97, 102, 51, 56>>,
  <<48, 102, 49, 100, 100, 97, 100, 100>>,
  <<97, 54, 55, 101, 48, 48, 50, 50>>,
  <<97, 48, 56, 99, 50, 51, 97, 101>>,
  <<102, 52, 55, 51, 101, 48, 53, 56>>,
  <<50, 51, 97, 52, 50, 48, 97, 56>>,
  <<51, 102, 54, 51, 50, 56, 48, 56>>,
  <<97, 98, 50, 55, 55, 54, 56, 52>>,
  <<99, 55, 102, 52, 97, 101, 52, 52>>
>>

(***************************************************************************)
(* String helpers (Python str/bytes operations used by the source).        *)
(***************************************************************************)
\* s.startswith(pre)
StartsWith(s, pre) == Len(s) >= Len(pre) /\ SubSeq(s, 1, Len(pre)) = pre

\* s[n:]
DropPrefix(s, n) == SubSeq(s, n + 1, Len(s))

\* str(n) for n >= 0
RECURSIVE IntToStr(_)
IntToStr(n) == IF n < 10 THEN <<48 + n>> ELSE IntToStr(n \div 10) \o <<48 + (n % 10)>>

\* int(s) for a string of decimal digits
RECURSIVE StrToInt(_)
StrToInt(s) ==
  IF Len(s) = 0 THEN 0
  ELSE 10 * StrToInt(SubSeq(s, 1, Len(s) - 1)) + (s[Len(s)] - 48)

\* s.rstrip(c)
RECURSIVE RStrip(_, _)
RStrip(s, c) ==
  IF Len(s) > 0 /\ s[Len(s)] = c THEN RStrip(SubSeq(s, 1, Len(s) - 1), c) ELSE s

\* index of the last occurrence of c in s, 0 when there is none
LastIndexOf(s, c) ==
  IF \E i \in 1..Len(s) : s[i] = c
  THEN CHOOSE i \in 1..Len(s) : s[i] = c /\ \A j \in (i + 1)..Len(s) : s[j] # c
  ELSE 0

\* index of the first occurrence of c in s, 0 when there is none
FirstIndexOf(s, c) ==
  IF \E i \in 1..Len(s) : s[i] = c
  THEN CHOOSE i \in 1..Len(s) : s[i] = c /\ \A j \in 1..(i - 1) : s[j] # c
  ELSE 0

\* s.split('/')
RECURSIVE SplitSlash(_)
SplitSlash(s) ==
  LET i == FirstIndexOf(s, 47) IN
  IF i = 0 THEN <<s>>
  ELSE <<SubSeq(s, 1, i - 1)>> \o SplitSlash(SubSeq(s, i + 1, Len(s)))

\* "/".join(parts)
RECURSIVE JoinSlash(_)
JoinSlash(parts) ==
  IF Len(parts) = 0 THEN <<>>
  ELSE IF Len(parts) = 1 THEN parts[1]
  ELSE parts[1] \o <<47>> \o JoinSlash(Tail(parts))

\* "/".join(path.rstrip('/').split('/')[:-1]), "/" when that is empty
ParentPath(path) ==
  LET parts == SplitSlash(RStrip(path, 47))
      joined == JoinSlash(SubSeq(parts, 1, Len(parts) - 1))
  IN IF joined = <<>> THEN P_root ELSE joined

(***************************************************************************)
(* Path codec (keyboards.py).                                              *)
(***************************************************************************)
\* URL-safe base64 alphabet: value -> character
B64Char(v) ==
  IF v < 26 THEN 65 + v
  ELSE IF v < 52 THEN 97 + (v - 26)
  ELSE IF v < 62 THEN 48 + (v - 52)
  ELSE IF v = 62 THEN 45
  ELSE 95

\* character -> value, -1 for a character outside the alphabet
B64Val(c) ==
  IF c >= 65 /\ c <= 90 THEN c - 65
  ELSE IF c >= 97 /\ c <= 122 THEN c - 97 + 26
  ELSE IF c >= 48 /\ c <= 57 THEN c - 48 + 52
  ELSE IF c = 45 \/ c = 43 THEN 62
  ELSE IF c = 95 \/ c = 47 THEN 63
  ELSE -1

\* base64.urlsafe_b64encode(b) without the trailing '=' padding
RECURSIVE B64EncodeNoPad(_)
B64EncodeNoPad(b) ==
  IF Len(b) = 0 THEN <<>>
  ELSE IF Len(b) = 1 THEN
    <<B64Char(b[1] \div 4), B64Char((b[1] % 4) * 16)>>
  ELSE IF Len(b) = 2 THEN
    <<B64Char(b[1] \div 4), B64Char((b[1] % 4) * 16 + (b[2] \div 16)),
      B64Char((b[2] % 16) * 4)>>
  ELSE
    <<B64Char(b[1] \div 4), B64Char((b[1] % 4) * 16 + (b[2] \div 16)),
      B64Char((b[2] % 16) * 4 + (b[3] \div 64)), B64Char(b[3] % 64)>>
    \o B64EncodeNoPad(SubSeq(b, 4, Len(b)))

encode_path(path) == B64EncodeNoPad(path)

\* the value decode_path raises with (binascii.Error, UnicodeDecodeError)
DecodeError == <<-1>>

\* base64 decoding of e padded with '=' to a multiple of four characters
RECURSIVE B64DecodePadded(_)
B64DecodePadded(e) ==
  IF Len(e) < 2 THEN <<>>
  ELSE IF Len(e) = 2 THEN
    <<B64Val(e[1]) * 4 + (B64Val(e[2]) \div 16)>>
  ELSE IF Len(e) = 3 THEN
    <<B64Val(e[1]) * 4 + (B64Val(e[2]) \div 16),
      (B64Val(e[2]) % 16) * 16 + (B64Val(e[3]) \div 4)>>
  ELSE
    <<B64Val(e[1]) * 4 + (B64Val(e[2]) \div 16),
      (B64Val(e[2]) % 16) * 16 + (B64Val(e[3]) \div 4),
      (B64Val(e[3]) % 4) * 64 + B64Val(e[4])>>
    \o B64DecodePadded(SubSeq(e, 5, Len(e)))

\* bytes.decode('utf-8') succeeds
RECURSIVE IsUtf8(_)
IsUtf8(b) ==
  LET cont(i) == i <= Len(b) /\ b[i] >= 128 /\ b[i] <= 191 IN
  IF Len(b) = 0 THEN TRUE
  ELSE IF b[1] < 128 THEN IsUtf8(SubSeq(b, 2, Len(b)))
  ELSE IF b[1] >= 194 /\ b[1] <= 223 THEN cont(2) /\ IsUtf8(SubSeq(b, 3, Len(b)))
  ELSE IF b[1] >= 224 /\ b[1] <= 239 THEN
    cont(2) /\ cont(3) /\ IsUtf8(SubSeq(b, 4, Len(b)))
  ELSE IF b[1] >= 240 /\ b[1] <= 244 THEN
    cont(2) /\ cont(3) /\ cont(4) /\ IsUtf8(SubSeq(b, 5, Len(b)))
  ELSE FALSE

decode_path(encoded) ==
  LET padding == 4 - (Len(encoded) % 4) IN
  IF \E i \in 1..Len(encoded) : B64Val(encoded[i]) < 0 THEN DecodeError
  ELSE IF padding = 3 THEN DecodeError
  ELSE LET decoded_bytes == B64DecodePadded(encoded) IN
       IF IsUtf8(decoded_bytes) THEN decoded_bytes ELSE DecodeError

hash_path(path) ==
  IF path \in NamedPaths THEN MD5Named(path) ELSE MD5XTable[Len(path)]

encode_path_smart(path) ==
  LET encoded == encode_path(path)
      test_callback == S_nav_page_100 \o encoded
  IN IF Len(test_callback) <= 60 THEN S_pc \o encoded
     ELSE S_hc \o hash_path(path)

\* a decoder that does not look at the prefix
decode_path_smart_NoPrefix(encoded) == <<decode_path(encoded), FALSE>>

\* <<path_or_hash, is_hash>>
decode_path_smart(encoded) ==
  IF StartsWith(encoded, S_pc) THEN <<decode_path(DropPrefix(encoded, 2)), FALSE>>
  ELSE IF StartsWith(encoded, S_hc) THEN <<DropPrefix(encoded, 2), TRUE>>
  ELSE <<decode_path(encoded), FALSE>>

\* state_data['path_mappings'][path_hash] = actual_path; the table is a function
\* from digests to paths
store_path_mapping(mappings, path_hash, actual_path) ==
  [h \in (DOMAIN mappings) \cup {path_hash} |->
     IF h = path_hash THEN actual_path ELSE mappings[h]]

\* None in a place that holds a path (an empty path is as falsy as None)
NoPath == <<>>

get_path_from_hash(mappings, path_hash) ==
  IF path_hash \in DOMAIN mappings THEN mappings[path_hash] ELSE NoPath

(***************************************************************************)
(* File-browser keyboard (keyboards.py).                                   *)
(***************************************************************************)
\* limit = 20 in get_file_browser_keyboard and in browse_directory
PageLimit == 20

\* Telegram's limit on the bytes of one callback_data
CallbackDataLimit == 64

Max(a, b) == IF a >= b THEN a ELSE b

Min(a, b) == IF a <= b THEN a ELSE b

\* truncate(text, max_len)
truncate(text, max_len) ==
  IF Len(text) > max_len THEN SubSeq(text, 1, max_len - 3) \o <<46, 46, 46>>
  ELSE text

\* a breadcrumb that keeps the first three parts of a long path
format_breadcrumb_FirstParts(path) ==
  IF path = P_root \/ path = <<>> THEN [kind |-> "root", parts |-> <<>>]
  ELSE LET parts == SelectSeq(SplitSlash(path), LAMBDA p : p # <<>>) IN
       IF Len(parts) <= 3 THEN [kind |-> "all", parts |-> parts]
       ELSE [kind |-> "tail", parts |-> SubSeq(parts, 1, 3)]

\* format_breadcrumb(path) with max_parts = 3: "root" is the text "/",
\* "all" is "/ > " followed by the parts, "tail" is "... > " followed by them
format_breadcrumb(path) ==
  IF path = P_root \/ path = <<>> THEN [kind |-> "root", parts |-> <<>>]
  ELSE LET parts == SelectSeq(SplitSlash(path), LAMBDA p : p # <<>>) IN
       IF Len(parts) <= 3 THEN [kind |-> "all", parts |-> parts]
       ELSE [kind |-> "tail", parts |-> SubSeq(parts, Len(parts) - 2, Len(parts))]

\* InlineKeyboardButton(text, callback_data); the text is kept as its icon and
\* its label
Button(icon, label, data) == [icon |-> icon, label |-> label, callback_data |-> data]

\* folders = [item for item in items if item['type'] == 'dir']
folder_items(items) == SelectSeq(items, LAMBDA item : item.type = "dir")

\* the files of a listing, the last one first
file_items_Reversed(items) ==
  LET kept == SelectSeq(items, LAMBDA item : item.type = "file")
  IN [i \in 1..Len(kept) |-> kept[Len(kept) + 1 - i]]

\* files = [item for item in items if item['type'] == 'file']
file_items(items) == SelectSeq(items, LAMBDA item : item.type = "file")

get_file_browser_keyboard(items, current_path, offset, total, mode) ==
  LET limit == PageLimit
      header == << <<Button("breadcrumb", format_breadcrumb(current_path).parts, S_noop)>> >>
      folder_rows ==
        [i \in 1..Len(folder_items(items)) |->
           <<Button("folder", <<truncate(folder_items(items)[i].name, 35)>>,
                    S_nav_open \o encode_path_smart(folder_items(items)[i].path))>>]
      file_rows ==
        [i \in 1..Len(file_items(items)) |->
           <<Button("file", <<truncate(file_items(items)[i].name, 20)>>,
                    S_nav_info \o encode_path_smart(file_items(items)[i].path)),
             Button(IF file_items(items)[i].public_url THEN "copy" ELSE "link", <<>>,
                    S_nav_publish \o encode_path_smart(file_items(items)[i].path)),
             Button("delete", <<>>,
                    S_nav_delete \o encode_path_smart(file_items(items)[i].path))>>]
      prev_buttons ==
        IF offset > 0
        THEN <<Button("prev", <<>>,
                      S_nav_page \o IntToStr(Max(0, offset - limit)) \o <<95>>
                        \o encode_path_smart(current_path))>>
        ELSE <<>>
      next_buttons ==
        IF offset + limit < total
        THEN <<Button("next", <<>>,
                      S_nav_page \o IntToStr(offset + limit) \o <<95>>
                        \o encode_path_smart(current_path))>>
        ELSE <<>>
      nav_buttons == prev_buttons \o next_buttons
      page_rows == IF total > limit /\ nav_buttons # <<>> THEN <<nav_buttons>> ELSE <<>>
      up_rows ==
        IF current_path # P_root /\ current_path # <<>>
        THEN << <<Button("up", <<>>,
                         S_nav_up \o encode_path_smart(ParentPath(current_path)))>> >>
        ELSE <<>>
      select_rows ==
        IF mode = "select"
        THEN << <<Button("select", <<>>,
                         S_nav_select \o encode_path_smart(current_path))>> >>
        ELSE <<>>
      close_rows == << <<Button("close", <<>>, S_nav_close)>> >>
  IN header \o folder_rows \o file_rows \o page_rows \o up_rows \o select_rows
       \o close_rows

\* every button of a keyboard, row by row
RECURSIVE Flatten(_)
Flatten(rows) == IF Len(rows) = 0 THEN <<>> ELSE Head(rows) \o Flatten(Tail(rows))

(***************************************************************************)
(* State.                                                                  *)
(***************************************************************************)
VARIABLES
  codec,                 \* inputs and results of one application of the codec functions
  Config_MAX_FILE_SIZE,  \* Config.MAX_FILE_SIZE, read from the environment at import
  yandex_tokens,         \* table yandex_tokens: user_id -> row or NoRow
  uploaded_files,        \* table uploaded_files: the rows in insertion order
  fsm_state,             \* MemoryStorage: user -> FSM state
  fsm_data,              \* MemoryStorage: user -> FSM data
  jobs,                  \* the running handle_file_upload calls
  temp_files,            \* the files of TEMP_DIR: name -> [owner, complete]
  api_methods,           \* the names of the methods of class YandexDiskAPI
  remote_deleted,        \* the paths deleted from the remote store
  chat,                  \* user -> the browser keyboard shown last, the buttons
                         \* of the other messages, and the indirect tokens
                         \* shown so far with their paths
  event,                 \* the handler that ran last, and what it did
  limiter,               \* RateLimitMiddleware: the clock, user_requests, and the
                         \* updates passed on to the handlers
  stream                 \* one run of YandexDiskAPI.upload_file with its progress_callback

vars == <<codec, Config_MAX_FILE_SIZE, yandex_tokens, uploaded_files,
          fsm_state, fsm_data, jobs, temp_files,
          api_methods, remote_deleted, chat, event, limiter, stream>>

nav_vars == <<api_methods, remote_deleted, chat, event>>

codec_vars == <<codec>>
upload_vars == <<Config_MAX_FILE_SIZE, yandex_tokens, uploaded_files,
                 fsm_state, fsm_data, jobs, temp_files>>

(***************************************************************************)
(* Users, the database and the FSM storage.                                *)
(***************************************************************************)
Users == {"u1", "u2"}

\* None, for a value that is not a path
None == "None"

\* "TelegramBot", the folder_name of u1's row
S_TelegramBot == <<84, 101, 108, 101, 103, 114, 97, 109, 66, 111, 116>>

NoRow == [present |-> FALSE, is_valid |-> FALSE, folder_name |-> <<>>]

\* u1 has completed /token, u2 has not
InitialTokens ==
  [u \in Users |->
     IF u = "u1"
     THEN [present |-> TRUE, is_valid |-> TRUE, folder_name |-> S_TelegramBot]
     ELSE NoRow]

\* FSM data of a user after state.clear(): no key is set
EmptyData ==
  [upload_folder |-> NoPath, delete_path |-> NoPath, path_mappings |-> <<>>]

\* the methods that class YandexDiskAPI defines
ServiceMethods ==
  {"check_token", "create_folder", "get_upload_url", "upload_file",
   "publish_file", "delete_file", "get_disk_info"}

\* no directory was rendered
NoRender == [path |-> NoPath, offset |-> 0, mode |-> None]

\* env_ok: the database and the remote store answered the handler's requests
NoEvent ==
  [user |-> None, handler |-> None, data |-> <<>>, path |-> NoPath, env_ok |-> TRUE,
   outcome |-> None, calls |-> <<>>, rendered |-> NoRender]

\* requests: the callback_nav_delete handlers of the chat in the order of their
\* updates, each with its path and its position (see AskDelete); renders: the
\* browse_directory calls of the chat (see StartRender)
NoChat ==
  [keyboard |-> <<>>, old |-> {}, indirect |-> {}, requests |-> <<>>, renders |-> <<>>]

\* no upload_file call is running
StreamIdle ==
  [phase |-> "off", file_size |-> 0, uploaded |-> 0, last_percent |-> 0,
   reports |-> <<>>, shown |-> 0]

\* the middleware before any update, with the default of Config.RATE_LIMIT
DefaultRateLimit == 5

NoUpdate == [user |-> None, at |-> 0, verdict |-> None]

LimiterIdle ==
  [rate_limit |-> DefaultRateLimit, now |-> 0,
   user_requests |-> [u \in Users |-> <<>>],
   passed |-> [u \in Users |-> <<>>],
   last |-> NoUpdate]

\* the browser before any event
NavIdle ==
  /\ remote_deleted = {}
  /\ event = NoEvent
  /\ limiter = LimiterIdle

(***************************************************************************)
(* Upload pipeline: handle_file_upload (handlers.py), download_telegram_file, *)
(* cleanup_temp_file and sanitize_filename (utils.py).  File sizes are in  *)
(* MiB.                                                                    *)
(***************************************************************************)
\* number of handle_file_upload calls that may run, interleaved at their awaits
MaxJobs == 2
Jobs == 1..MaxJobs

\* MAX_FILE_SIZE = 2 * 1024 * 1024 * 1024 bytes, the local of handle_file_upload
HandlerMaxFileSize == 2 * 1024

\* the default of Config.MAX_FILE_SIZE, 2 GB
DefaultMaxFileSize == 2 * 1024

\* values of the MAX_FILE_SIZE environment variable
ConfigSizes == {1024, DefaultMaxFileSize, 3072}

\* declared sizes of the incoming files
SizeInputs == {HandlerMaxFileSize, HandlerMaxFileSize + 1}

\* "a?.txt", "b.txt"
N_aq == <<97, 63, 46, 116, 120, 116>>
N_b == <<98, 46, 116, 120, 116>>
FileNames == {N_aq, N_b}

\* unsafe_chars of sanitize_filename: < > : " / \ | ? *
UnsafeChars == {60, 62, 58, 34, 47, 92, 124, 63, 42}

\* s.strip(chars)
RECURSIVE Strip(_, _)
Strip(s, chars) ==
  IF Len(s) > 0 /\ s[1] \in chars THEN Strip(Tail(s), chars)
  ELSE IF Len(s) > 0 /\ s[Len(s)] \in chars THEN Strip(SubSeq(s, 1, Len(s) - 1), chars)
  ELSE s

\* a sanitizer that replaces the unsafe characters and strips nothing
sanitize_filename_NoStrip(filename) ==
  LET replaced == [i \in 1..Len(filename) |->
                     IF filename[i] \in UnsafeChars THEN 95 ELSE filename[i]]
  IN IF replaced = <<>> THEN S_unnamed_file ELSE replaced

\* sanitize_filename(filename): the unsafe characters become "_", dots and
\* spaces at both ends are stripped, an empty result becomes "unnamed_file"
sanitize_filename(filename) ==
  LET replaced == [i \in 1..Len(filename) |->
                     IF filename[i] \in UnsafeChars THEN 95 ELSE filename[i]]
      sanitized == Strip(replaced, {46, 32})
  IN IF sanitized = <<>> THEN S_unnamed_file ELSE sanitized

\* f"{folder_name}/{sanitized_name}" if folder_name != "/" else sanitized_name
YandexPath(folder_name, sanitized_name) ==
  IF folder_name # P_root THEN folder_name \o <<47>> \o sanitized_name
  ELSE sanitized_name

\* the temp directory with file name written by job owner
WriteTemp(files, name, owner, complete) ==
  [n \in (DOMAIN files) \cup {name} |->
     IF n = name THEN [owner |-> owner, complete |-> complete] ELSE files[n]]

\* cleanup_temp_file(local_path): remove the file when it exists
cleanup_temp_file(files, local_path) ==
  [n \in (DOMAIN files) \ {local_path} |-> files[n]]

\* a remote-store or transport call
Call(op, path) == [op |-> op, path |-> path]

\* a job that has not started
NoJob ==
  [pc |-> "none", user |-> "u1", file_name |-> <<>>, file_size |-> 0,
   upload_folder |-> NoPath, folder_name |-> <<>>, sanitized_name |-> <<>>,
   yandex_path |-> <<>>, public_url |-> None, status |-> "none",
   link_shown |-> FALSE, steps |-> <<>>, calls |-> <<>>, failed |-> {},
   exc |-> FALSE, record_id |-> 0]

\* what Telegram does with an edit of the status message inside the try
\* block: it is delivered, it raises and the edit of the except clause is
\* delivered, or both raise
EditOutcomes == {"ok", "raise", "raise_twice"}

\* the status shown after `await status_msg.edit_text(text)` in the try block
StatusAfter(old, text, edit) ==
  IF edit = "ok" THEN text ELSE IF edit = "raise" THEN "error" ELSE old

\* a handler that goes from the upload URL straight to publish_file
AfterGetUrl_SkipStream(upload_url_ok) == IF upload_url_ok THEN "publish" ELSE "done"

\* lines 356-359: without an upload URL the handler reports and returns
AfterGetUrl(upload_url_ok) == IF upload_url_ok THEN "stream" ELSE "done"

\* a handler that does not return after a failed stream
AfterStream_NoReturn(upload_success) == "publish"

\* lines 382-385: after a failed stream the handler reports and returns
AfterStream(upload_success) == IF upload_success THEN "publish" ELSE "done"

\* a handler that calls publish_file again until it gives a URL
AfterPublish_Retry(published) == IF published THEN "persist" ELSE "publish"

\* lines 388-390: the result of publish_file is not tested
AfterPublish(published) == "persist"

\* a handler that returns when the row cannot be saved
AfterPersist_Abort(saved) == IF saved THEN "report" ELSE "done"

\* lines 391-405: an exception of the commit is caught and logged
AfterPersist(saved) == "report"

\* a success text that always carries a link
LinkShown_Always(public_url) == TRUE

\* lines 412-413: the link is part of the success text when there is a URL
LinkShown(public_url) == public_url # None

\* lines 276-294: the size check and the read of the FSM data
ReceiveFile(j, u, name, size) ==
  /\ jobs[j].pc = "none"
  /\ \A k \in 1..(j - 1) : jobs[k].pc # "none"
  /\ IF size > HandlerMaxFileSize
     THEN jobs' = [jobs EXCEPT ![j] =
                     [@ EXCEPT !.pc = "done", !.user = u, !.file_name = name,
                               !.file_size = size, !.status = "too_big"]]
     ELSE jobs' = [jobs EXCEPT ![j] =
                     [@ EXCEPT !.pc = "token", !.user = u, !.file_name = name,
                               !.file_size = size,
                               !.upload_folder = fsm_data[u].upload_folder]]
  /\ UNCHANGED <<nav_vars, limiter, stream, codec, Config_MAX_FILE_SIZE, yandex_tokens, uploaded_files,
                 fsm_state, fsm_data, temp_files>>

\* a lookup that goes on with the default folder whatever the table holds
LookupToken_NoCheck(j, db_ok) ==
  /\ jobs[j].pc = "token"
  /\ jobs' = [jobs EXCEPT ![j] = [@ EXCEPT !.pc = "stage", !.folder_name = S_TelegramBot]]
  /\ UNCHANGED <<nav_vars, limiter, stream, codec, Config_MAX_FILE_SIZE, yandex_tokens, uploaded_files,
                 fsm_state, fsm_data, temp_files>>

\* lines 296-328: the credential lookup and the choice of the folder
LookupToken(j, db_ok) ==
  LET job == jobs[j]
      token_record == yandex_tokens[job.user]
  IN
  /\ job.pc = "token"
  /\ IF ~db_ok
     THEN /\ jobs' = [jobs EXCEPT ![j] =
                        [@ EXCEPT !.pc = "done", !.status = "token_error",
                                  !.failed = @ \cup {"token"}]]
          /\ UNCHANGED fsm_data
     ELSE IF ~token_record.present \/ ~token_record.is_valid
     THEN /\ jobs' = [jobs EXCEPT ![j] =
                        [@ EXCEPT !.pc = "done", !.status = "not_configured"]]
          /\ UNCHANGED fsm_data
     ELSE IF job.upload_folder # NoPath
     THEN /\ jobs' = [jobs EXCEPT ![j] =
                        [@ EXCEPT !.pc = "stage", !.folder_name = job.upload_folder]]
          /\ fsm_data' = [fsm_data EXCEPT ![job.user].upload_folder = NoPath]
     ELSE /\ jobs' = [jobs EXCEPT ![j] =
                        [@ EXCEPT !.pc = "stage",
                                  !.folder_name = token_record.folder_name]]
          /\ UNCHANGED fsm_data
  /\ UNCHANGED <<nav_vars, limiter, stream, codec, Config_MAX_FILE_SIZE, yandex_tokens, uploaded_files,
                 fsm_state, temp_files>>

\* lines 330-348 and download_telegram_file: the status message and the fetch
\* of the blob into TEMP_DIR; "partial" is a download_file that raises after
\* it has created the destination file
FetchOutcomes == {"ok", "fail", "partial"}

StageFile(j, fetch, edit_ok) ==
  LET job == jobs[j]
      sanitized_name == sanitize_filename(job.file_name)
      staged == [job EXCEPT !.sanitized_name = sanitized_name,
                            !.steps = Append(@, "stage"),
                            !.calls = Append(@, Call("get_file", job.file_name))]
  IN
  /\ job.pc = "stage"
  /\ IF fetch = "ok"
     THEN /\ jobs' = [jobs EXCEPT ![j] =
                        [staged EXCEPT !.pc = "get_url", !.status = "uploading"]]
          /\ temp_files' = WriteTemp(temp_files, sanitized_name, j, TRUE)
     ELSE /\ jobs' = [jobs EXCEPT ![j] =
                        [staged EXCEPT !.pc = "done",
                           !.status = IF edit_ok THEN "download_failed"
                                      ELSE "uploading",
                           !.failed = @ \cup {"fetch"}]]
          /\ temp_files' = IF fetch = "partial"
                           THEN WriteTemp(temp_files, sanitized_name, j, FALSE)
                           ELSE temp_files
  /\ UNCHANGED <<nav_vars, limiter, stream, codec, Config_MAX_FILE_SIZE, yandex_tokens, uploaded_files,
                 fsm_state, fsm_data>>

\* lines 350-359: get_upload_url; without a URL the job reports and returns
GetUploadUrl(j, ok, edit) ==
  LET job == jobs[j]
      yandex_path == YandexPath(job.folder_name, job.sanitized_name)
      called == [job EXCEPT !.yandex_path = yandex_path,
                            !.steps = Append(@, "get_write_target"),
                            !.calls = Append(@, Call("get_upload_url", yandex_path))]
  IN
  /\ job.pc = "get_url"
  /\ IF ok
     THEN /\ jobs' = [jobs EXCEPT ![j] = [called EXCEPT !.pc = AfterGetUrl(ok)]]
          /\ UNCHANGED temp_files
     ELSE /\ jobs' = [jobs EXCEPT ![j] =
                        [called EXCEPT !.pc = AfterGetUrl(ok),
                           !.status = StatusAfter(job.status, "no_upload_url", edit),
                           !.exc = (edit # "ok"),
                           !.failed = @ \cup {"url"}]]
          /\ temp_files' = cleanup_temp_file(temp_files, job.sanitized_name)
  /\ UNCHANGED <<nav_vars, limiter, stream, codec, Config_MAX_FILE_SIZE, yandex_tokens, uploaded_files,
                 fsm_state, fsm_data>>

\* lines 361-385 and upload_file: the stream of the staged file; upload_file
\* returns False when the file is gone (stat raises) or the PUT fails; after
\* a PUT that succeeded the remote store holds a file at yandex_path
StreamFile(j, ok, edit) ==
  LET job == jobs[j]
      upload_success == ok /\ job.sanitized_name \in DOMAIN temp_files
      called == [job EXCEPT !.steps = Append(@, "stream"),
                            !.calls = Append(@, Call("upload_file", job.yandex_path))]
  IN
  /\ job.pc = "stream"
  /\ IF upload_success
     THEN /\ jobs' = [jobs EXCEPT ![j] =
                        [called EXCEPT !.pc = AfterStream(upload_success)]]
          /\ remote_deleted' = remote_deleted \ {job.yandex_path}
          /\ UNCHANGED temp_files
     ELSE /\ jobs' = [jobs EXCEPT ![j] =
                        [called EXCEPT !.pc = AfterStream(upload_success),
                           !.status = StatusAfter(job.status, "upload_failed", edit),
                           !.exc = (edit # "ok"),
                           !.failed = @ \cup {"stream"}]]
          /\ temp_files' = cleanup_temp_file(temp_files, job.sanitized_name)
          /\ UNCHANGED remote_deleted
  /\ UNCHANGED <<api_methods, chat, event, limiter, stream, codec, Config_MAX_FILE_SIZE,
                 yandex_tokens, uploaded_files, fsm_state, fsm_data>>

\* line 388 and publish_file: the public URL, None when publishing fails
PublishFile(j, ok) ==
  LET job == jobs[j] IN
  /\ job.pc = "publish"
  /\ jobs' = [jobs EXCEPT ![j] =
                [@ EXCEPT !.pc = AfterPublish(ok),
                          !.steps = Append(@, "publish"),
                          !.calls = Append(@, Call("publish_file", job.yandex_path)),
                          !.public_url = IF ok THEN "url" ELSE None,
                          !.failed = IF ok THEN @ ELSE @ \cup {"publish"}]]
  /\ UNCHANGED <<nav_vars, limiter, stream, codec, Config_MAX_FILE_SIZE, yandex_tokens, uploaded_files,
                 fsm_state, fsm_data, temp_files>>

\* the id of a new row: an INTEGER PRIMARY KEY of SQLite is one more than the
\* largest id in the table
NextId(rows) ==
  IF Len(rows) = 0 THEN 1
  ELSE 1 + (CHOOSE n \in {rows[i].id : i \in 1..Len(rows)} :
              \A i \in 1..Len(rows) : rows[i].id <= n)

\* lines 390-403: the UploadedFile row; a failure of the commit is logged only
SaveRecord(j, ok) ==
  LET job == jobs[j]
      new_file == [id |-> NextId(uploaded_files), user_id |-> job.user,
                   file_name |-> job.file_name, yandex_path |-> job.yandex_path,
                   public_url |-> job.public_url, file_size |-> job.file_size]
  IN
  /\ job.pc = "persist"
  /\ IF ok
     THEN /\ uploaded_files' = Append(uploaded_files, new_file)
          /\ jobs' = [jobs EXCEPT ![j] =
                        [@ EXCEPT !.pc = AfterPersist(ok),
                                  !.steps = Append(@, "persist"),
                                  !.record_id = new_file.id]]
     ELSE /\ UNCHANGED uploaded_files
          /\ jobs' = [jobs EXCEPT ![j] =
                        [@ EXCEPT !.pc = AfterPersist(ok),
                                  !.steps = Append(@, "persist"),
                                  !.failed = @ \cup {"persist"}]]
  /\ UNCHANGED <<nav_vars, limiter, stream, codec, Config_MAX_FILE_SIZE, yandex_tokens, fsm_state, fsm_data,
                 temp_files>>

\* lines 405-423: the success message, with the link when there is a public
\* URL, and the cleanup of the finally clause
ReportSuccess(j, edit) ==
  LET job == jobs[j] IN
  /\ job.pc = "report"
  /\ jobs' = [jobs EXCEPT ![j] =
                [@ EXCEPT !.pc = "done",
                          !.status = StatusAfter(job.status, "success", edit),
                          !.link_shown = (edit = "ok" /\ LinkShown(job.public_url)),
                          !.exc = (edit # "ok")]]
  /\ temp_files' = cleanup_temp_file(temp_files, job.sanitized_name)
  /\ UNCHANGED <<nav_vars, limiter, stream, codec, Config_MAX_FILE_SIZE, yandex_tokens, uploaded_files,
                 fsm_state, fsm_data>>

\* the state before any event: nothing uploaded, no session state
UploadIdle ==
  /\ Config_MAX_FILE_SIZE = DefaultMaxFileSize
  /\ yandex_tokens = InitialTokens
  /\ uploaded_files = <<>>
  /\ fsm_state = [u \in Users |-> None]
  /\ fsm_data = [u \in Users |-> EmptyData]
  /\ jobs = [j \in Jobs |-> NoJob]
  /\ temp_files = <<>>
  /\ NavIdle
  /\ chat = [u \in Users |-> NoChat]
  /\ api_methods = ServiceMethods

(***************************************************************************)
(* The codec functions applied to inputs drawn from bounded sets.          *)
(***************************************************************************)
\* lengths of the generated paths XPath(n)
XPathMinLen == 30
XPathMaxLen == 38

CodecPaths ==
  NamedPaths \cup {<<>>} \cup {XPath(n) : n \in XPathMinLen..XPathMaxLen}

OffsetInputs == {0, 20, 99980, 100000}
TotalInputs == {0, 30, 100030}
Modes == {"browse", "select"}

\* the last segment of a path, the name the remote store reports for it
BaseName(path) ==
  LET parts == SplitSlash(RStrip(path, 47)) IN parts[Len(parts)]

\* one item of a directory listing as the remote API returns it
Item(type, path, published) ==
  [type |-> type, name |-> BaseName(path), path |-> path, public_url |-> published]

\* a listing in the order of the remote API: files and folders alternate
CodecListing(q) ==
  <<Item("file", q, FALSE), Item("dir", q, FALSE),
    Item("file", P_report, FALSE), Item("dir", P_docs, FALSE)>>

CodecIdle ==
  [phase |-> "off", path |-> <<>>, item_path |-> <<>>, offset |-> 0,
   total |-> 0, mode |-> "browse", token |-> <<>>, decoded |-> <<>>,
   keyboard |-> <<>>, breadcrumb |-> [kind |-> "root", parts |-> <<>>]]

CodecInit ==
  /\ UploadIdle
  /\ stream = StreamIdle
  /\ codec \in {[CodecIdle EXCEPT !.phase = "input", !.path = p, !.item_path = q,
                                !.offset = o, !.total = t, !.mode = m] :
               p \in CodecPaths, q \in CodecPaths, o \in OffsetInputs,
               t \in TotalInputs, m \in Modes}

\* encode_path_smart(path), then decode_path_smart of its result
ApplyEncode ==
  /\ codec.phase = "input"
  /\ LET token == encode_path_smart(codec.path) IN
     codec' = [codec EXCEPT !.phase = "encoded", !.token = token,
                            !.decoded = decode_path_smart(token)]
  /\ UNCHANGED <<upload_vars, nav_vars, limiter, stream>>

\* get_file_browser_keyboard(items, current_path, offset, total, mode)
ApplyKeyboard ==
  /\ codec.phase = "input"
  /\ codec' = [codec EXCEPT !.phase = "keyboard",
                 !.keyboard = get_file_browser_keyboard(
                    CodecListing(codec.item_path), codec.path, codec.offset,
                    codec.total, codec.mode)]
  /\ UNCHANGED <<upload_vars, nav_vars, limiter, stream>>

\* format_breadcrumb(path)
ApplyBreadcrumb ==
  /\ codec.phase = "input"
  /\ codec' = [codec EXCEPT !.phase = "breadcrumb",
                            !.breadcrumb = format_breadcrumb(codec.path)]
  /\ UNCHANGED <<upload_vars, nav_vars, limiter, stream>>

CodecNext == ApplyEncode \/ ApplyKeyboard \/ ApplyBreadcrumb

SpecCodec == CodecInit /\ [][CodecNext]_vars

(***************************************************************************)
(* Claims about the codec.                                                 *)
(***************************************************************************)
\* C2: in every keyboard built by get_file_browser_keyboard the callback_data
\* of each button is at most 64 bytes long.
TokenBudget ==
  codec.phase = "keyboard" =>
    \A i \in 1..Len(Flatten(codec.keyboard)) :
      Len(Flatten(codec.keyboard)[i].callback_data) <= CallbackDataLimit

\* C4: when encode_path_smart chooses the inline form for p, decode_path_smart
\* of the token is (p, not a hash).
RoundTrip ==
  (codec.phase = "encoded" /\ StartsWith(codec.token, S_pc)) =>
    codec.decoded = <<codec.path, FALSE>>

\* an inline token of a path with non-ASCII bytes has been decoded back
RoundTripWitness ==
  /\ codec.phase = "encoded"
  /\ codec.path = P_cyr
  /\ StartsWith(codec.token, S_pc)
  /\ codec.decoded = <<P_cyr, FALSE>>

(***************************************************************************)
(* The upload pipeline: files arrive and are handled by interleaved jobs.  *)
(***************************************************************************)
UploadInit ==
  /\ codec = CodecIdle
  /\ stream = StreamIdle
  /\ Config_MAX_FILE_SIZE = DefaultMaxFileSize
  /\ yandex_tokens = InitialTokens
  /\ uploaded_files = <<>>
  /\ fsm_state = [u \in Users |-> None]
  /\ fsm_data = [u \in Users |-> EmptyData]
  /\ jobs = [j \in Jobs |-> NoJob]
  /\ temp_files = <<>>
  /\ NavIdle
  /\ chat = [u \in Users |-> NoChat]
  /\ api_methods = ServiceMethods

UploadNext ==
  \E j \in Jobs :
    \/ \E u \in Users, name \in FileNames, size \in SizeInputs :
         ReceiveFile(j, u, name, size)
    \/ \E db_ok \in BOOLEAN : LookupToken(j, db_ok)
    \/ \E fetch \in FetchOutcomes, edit_ok \in BOOLEAN : StageFile(j, fetch, edit_ok)
    \/ \E ok \in BOOLEAN, edit \in EditOutcomes : GetUploadUrl(j, ok, edit)
    \/ \E ok \in BOOLEAN, edit \in EditOutcomes : StreamFile(j, ok, edit)
    \/ \E ok \in BOOLEAN : PublishFile(j, ok)
    \/ \E ok \in BOOLEAN : SaveRecord(j, ok)
    \/ \E edit \in EditOutcomes : ReportSuccess(j, edit)

SpecUpload == UploadInit /\ [][UploadNext]_vars

\* the same with MAX_FILE_SIZE set in the environment
UploadEnvInit ==
  /\ codec = CodecIdle
  /\ stream = StreamIdle
  /\ Config_MAX_FILE_SIZE \in ConfigSizes
  /\ yandex_tokens = InitialTokens
  /\ uploaded_files = <<>>
  /\ fsm_state = [u \in Users |-> None]
  /\ fsm_data = [u \in Users |-> EmptyData]
  /\ jobs = [j \in Jobs |-> NoJob]
  /\ temp_files = <<>>
  /\ NavIdle
  /\ chat = [u \in Users |-> NoChat]
  /\ api_methods = ServiceMethods

SpecUploadEnv == UploadEnvInit /\ [][UploadNext]_vars

(***************************************************************************)
(* Claims about the upload pipeline.                                       *)
(***************************************************************************)
\* the file that job j staged is still in TEMP_DIR
StagedFileExists(j) ==
  /\ jobs[j].sanitized_name \in DOMAIN temp_files
  /\ temp_files[jobs[j].sanitized_name].owner = j

\* the calls of a job to the remote store
RemoteCalls(j) == SelectSeq(jobs[j].calls, LAMBDA c : c.op # "get_file")

StepOrder == <<"stage", "get_write_target", "stream", "publish", "persist">>

IsPrefix(s, t) == Len(s) <= Len(t) /\ s = SubSeq(t, 1, Len(s))

Started(j, step) == \E i \in 1..Len(jobs[j].steps) : jobs[j].steps[i] = step

\* C1: once handle_file_upload has returned, the temporary file that the job
\* staged does not exist, whichever step failed.
CleanupGuarantee ==
  \A j \in Jobs : jobs[j].pc = "done" => ~StagedFileExists(j)

\* C6: an upload larger than Config.MAX_FILE_SIZE is rejected before the
\* credential lookup and before any fetch or remote call, and an upload that
\* is not larger is never rejected for its size.
OversizedRejected ==
  \A j \in Jobs :
    jobs[j].pc # "none" =>
      /\ jobs[j].file_size > Config_MAX_FILE_SIZE =>
           (jobs[j].pc = "done" /\ jobs[j].status = "too_big" /\ jobs[j].calls = <<>>)
      /\ jobs[j].file_size <= Config_MAX_FILE_SIZE => jobs[j].status # "too_big"

\* C7: the steps of one job are started in the order stage, get write target,
\* stream, publish, persist, each at most once.
StepOrdering ==
  \A j \in Jobs : IsPrefix(jobs[j].steps, StepOrder)

\* a job has gone through all five steps
StepOrderingWitness ==
  \E j \in Jobs : jobs[j].pc = "done" /\ jobs[j].steps = StepOrder

ReportClass(j) ==
  IF jobs[j].pc # "done" \/ jobs[j].exc THEN "none"
  ELSE IF "url" \in jobs[j].failed THEN "no_write_target"
  ELSE IF "stream" \in jobs[j].failed THEN "write_failed"
  ELSE IF "publish" \in jobs[j].failed THEN "publish_failed"
  ELSE IF jobs[j].steps = StepOrder /\ jobs[j].failed = {} THEN "full_success"
  ELSE "none"

PersistFailureKeepsUpload ==
  \A j \in Jobs :
    (jobs[j].pc = "done" /\ "persist" \in jobs[j].failed
       /\ "publish" \notin jobs[j].failed) =>
      /\ \A i \in 1..Len(jobs[j].calls) : jobs[j].calls[i].op # "delete_file"
      /\ ~jobs[j].exc => jobs[j].status = "success"
      /\ ~StagedFileExists(j)
      /\ jobs[j].record_id = 0

\* a job has ended with the success status although its row was not saved
PersistFailureWitness ==
  \E j \in Jobs :
    /\ jobs[j].pc = "done" /\ jobs[j].failed = {"persist"}
    /\ Started(j, "stream") /\ Started(j, "publish")
    /\ jobs[j].status = "success"
    /\ ~StagedFileExists(j)
    /\ uploaded_files = <<>>

(***************************************************************************)
(* The stream of one file: the generator file_sender of upload_file        *)
(* (service.py) and the progress_callback that handle_file_upload hands to *)
(* it (handlers.py).  Sizes are in bytes.  The file is not written to      *)
(* while it is streamed.                                                   *)
(***************************************************************************)
\* chunk_size = 65536
ChunkSize == 65536

\* the largest staged file, in chunks
StreamMaxChunks == 24

\* sizes of the staged file: empty, shorter than a chunk, whole chunks, and
\* whole chunks and one byte
StreamSizes ==
  {0, 1, ChunkSize - 1}
    \cup {k * ChunkSize + r : k \in 1..StreamMaxChunks, r \in {0, 1}}

\* int((uploaded / file_size) * 100); the quotient is exact at
\* uploaded = file_size and below 100 before
Percentage(uploaded, file_size) == (uploaded * 100) \div file_size

\* a callback that edits the message at every chunk
Throttle_EveryChunk(percent, last_percent) == TRUE

\* line 367: percent - last_percent >= 10 or percent >= 100
Throttle(percent, last_percent) ==
  percent - last_percent >= 10 \/ percent >= 100

\* lines 364-378: the record after progress_callback(percent); an exception
\* of edit_text is swallowed
progress_callback(st, percent, edit_ok) ==
  IF Throttle(percent, st.last_percent)
  THEN [st EXCEPT !.last_percent = percent,
                  !.reports = Append(@, percent),
                  !.shown = IF edit_ok THEN percent ELSE @]
  ELSE st

\* lines 128-129 and 362 of the handler: the size is read, nothing is sent
\* yet, last_percent = 0
StreamInit ==
  /\ UploadIdle
  /\ codec = CodecIdle
  /\ stream \in {[StreamIdle EXCEPT !.phase = "sending", !.file_size = size] :
                  size \in StreamSizes}

\* lines 137-144: one chunk is read and counted, the callback is called when
\* the file is not empty, and the chunk is yielded
SendChunk(edit_ok) ==
  /\ stream.phase = "sending"
  /\ stream.uploaded < stream.file_size
  /\ LET n == Min(ChunkSize, stream.file_size - stream.uploaded)
         counted == [stream EXCEPT !.uploaded = @ + n]
     IN stream' = IF stream.file_size > 0
                  THEN progress_callback(counted,
                         Percentage(counted.uploaded, stream.file_size), edit_ok)
                  ELSE counted
  /\ UNCHANGED <<upload_vars, nav_vars, limiter, codec>>

\* lines 137-139: the read at the end of the file returns no chunk
EndOfFile ==
  /\ stream.phase = "sending"
  /\ stream.uploaded = stream.file_size
  /\ stream' = [stream EXCEPT !.phase = "sent"]
  /\ UNCHANGED <<upload_vars, nav_vars, limiter, codec>>

StreamNext ==
  \/ \E edit_ok \in BOOLEAN : SendChunk(edit_ok)
  \/ EndOfFile

SpecStream == StreamInit /\ [][StreamNext]_vars

ProgressCompletion ==
  stream.phase = "sent" =>
    /\ stream.reports # <<>>
    /\ stream.reports[Len(stream.reports)] = 100
    /\ Cardinality({i \in 1..Len(stream.reports) : stream.reports[i] = 100}) = 1

(***************************************************************************)
(* The file browser: browse_directory and the nav_ callback handlers       *)
(* (handlers.py).  Each action is the arrival of one callback query.       *)
(***************************************************************************)
\* list_directory, get_resource_info and publish_resource are called by the
\* handlers and defined nowhere in service.py; they are modelled from the
\* remote-store interface of the specification
ListingMethods == {"list_directory", "get_resource_info", "publish_resource"}

\* the content of the remote store that the listings are taken from
RemoteChildren(path) ==
  CASE path = P_root \/ path = P_disk ->
         <<Item("dir", P_docs, FALSE), Item("dir", P_vac, FALSE)>>
    [] path = P_docs -> <<Item("file", P_report, FALSE)>>
    [] path = P_vac -> <<Item("file", P_img1, FALSE), Item("file", P_img2, FALSE)>>
    [] OTHER -> <<>>

\* listDirectory(path, limit, offset) -> DirectoryListing: one page of the
\* children of path and their total number
list_directory(path, limit, offset, deleted) ==
  LET all == SelectSeq(RemoteChildren(path), LAMBDA item : item.path \notin deleted)
  IN [items |-> SubSeq(all, offset + 1, Min(Len(all), offset + limit)),
      total |-> Len(all)]

ListCall(path, limit, offset) ==
  [op |-> "list_directory", path |-> path, limit |-> limit, offset |-> offset]

\* lines 867-870: the mappings of the items, stored in listing order
RECURSIVE StoreItems(_, _)
StoreItems(mappings, items) ==
  IF Len(items) = 0 THEN mappings
  ELSE StoreItems(store_path_mapping(mappings, hash_path(Head(items).path),
                                     Head(items).path),
                  Tail(items))

\* the indirect tokens of a page, each with the path it stands for
IndirectTokens(paths) ==
  {<<encode_path_smart(q), q>> : q \in {r \in paths : StartsWith(encode_path_smart(r), S_hc)}}

\* a render that does not write the table back
set_data_Skipped(state_data, path_mappings) == state_data

\* line 880: state.set_data(state_data), the one write of the table
set_data(state_data, path_mappings) ==
  [state_data EXCEPT !.path_mappings = path_mappings]

BrowseFailed(outcome, calls, state_data) ==
  [outcome |-> outcome, calls |-> calls, state_data |-> state_data,
   keyboard |-> <<>>, indirect |-> {}, rendered |-> NoRender]

\* browse_directory(callback_or_message, user_id, path, offset, state, mode)
\* run on FSM data state_data while the paths of deleted are gone from the store
browse_directory(u, path, offset, mode, db_ok, api_ok, state_data, deleted) ==
  LET token_record == yandex_tokens[u] IN
  IF ~db_ok THEN BrowseFailed("db_error", <<>>, state_data)
  ELSE IF ~token_record.present THEN BrowseFailed("not_configured", <<>>, state_data)
  ELSE IF "list_directory" \notin api_methods
  THEN BrowseFailed("list_error", <<>>, state_data)
  ELSE IF ~api_ok
  THEN BrowseFailed("list_error", <<ListCall(path, PageLimit, offset)>>, state_data)
  ELSE
    LET dir_data == list_directory(path, PageLimit, offset, deleted)
        current == store_path_mapping(state_data.path_mappings, hash_path(path), path)
        with_items == StoreItems(current, dir_data.items)
        parent_path == ParentPath(path)
        with_parent ==
          IF path # P_root
          THEN store_path_mapping(with_items, hash_path(parent_path), parent_path)
          ELSE with_items
        item_paths == {dir_data.items[i].path : i \in 1..Len(dir_data.items)}
    IN [outcome |-> "rendered",
        calls |-> <<ListCall(path, PageLimit, offset)>>,
        state_data |-> set_data(state_data, with_parent),
        keyboard |-> get_file_browser_keyboard(dir_data.items, path, offset,
                                               dir_data.total, mode),
        indirect |-> IndirectTokens(item_paths \cup {path}
                        \cup (IF path # P_root /\ path # <<>>
                              THEN {parent_path} ELSE {})),
        rendered |-> [path |-> path, offset |-> offset, mode |-> mode]]

\* the record of one handled callback query: path is the path that the
\* handler got from its token or from the FSM data
Ev(u, handler, data, path, env_ok, outcome, calls, rendered) ==
  [user |-> u, handler |-> handler, data |-> data, path |-> path,
   env_ok |-> env_ok, outcome |-> outcome, calls |-> calls, rendered |-> rendered]

\* what a handler leaves behind when it ends with a call of browse_directory
ApplyBrowse(u, handler, data, path, env_ok, res, calls_before) ==
  LET r == res IN
  /\ fsm_data' = [fsm_data EXCEPT ![u] = r.state_data]
  /\ chat' = [chat EXCEPT ![u] =
                [keyboard |-> r.keyboard, old |-> @.old,
                 indirect |-> @.indirect \cup r.indirect,
                 requests |-> @.requests, renders |-> @.renders]]
  /\ event' = Ev(u, handler, data, path, env_ok, r.outcome, calls_before \o r.calls,
                 r.rendered)

\* a handler that answers the callback query and changes nothing else
Answer(u, handler, data, path, env_ok, outcome, calls) ==
  /\ event' = Ev(u, handler, data, path, env_ok, outcome, calls, NoRender)
  /\ UNCHANGED <<fsm_state, fsm_data, chat, remote_deleted>>

\* buttons of messages that an earlier run of the bot has left in a chat
BookmarkData ==
  {S_nav_open \o encode_path_smart(P_docs),
   S_nav_open \o encode_path_smart(P_vac),
   S_nav_open \o encode_path_smart(P_sub),
   S_nav_page \o IntToStr(PageLimit) \o <<95>> \o encode_path_smart(P_docs),
   S_nav_page \o IntToStr(PageLimit) \o <<95>> \o encode_path_smart(P_sub),
   S_nav_up \o encode_path_smart(P_root),
   S_nav_up \o encode_path_smart(P_disk),
   S_nav_up \o encode_path_smart(P_sub),
   S_nav_delete \o encode_path_smart(P_report),
   S_nav_delete \o encode_path_smart(P_img1),
   S_nav_info \o encode_path_smart(P_report),
   S_nav_info \o encode_path_smart(P_img1),
   S_nav_publish \o encode_path_smart(P_report),
   S_nav_publish \o encode_path_smart(P_img1),
   S_nav_select \o encode_path_smart(P_docs),
   S_nav_select \o encode_path_smart(P_sub),
   S_nav_confirm_del_yes, S_nav_confirm_del_no, S_nav_close}

\* the buttons of the confirmation that callback_nav_delete sends
ConfirmData == {S_nav_confirm_del_yes, S_nav_confirm_del_no}

\* the callback_data of the buttons of a keyboard
KeyboardData(keyboard) ==
  LET buttons == Flatten(keyboard) IN {buttons[i].callback_data : i \in 1..Len(buttons)}

\* the callback_data that user u can send by pressing a button
Pressable(u) ==
  LET buttons == Flatten(chat[u].keyboard) IN
  {buttons[i].callback_data : i \in 1..Len(buttons)} \cup chat[u].old

\* the opening of the nav_ handlers: decode the token and look a digest up
ResolveToken(encoded_path, state_data) ==
  LET decoded == decode_path_smart(encoded_path) IN
  IF decoded[2] THEN get_path_from_hash(state_data.path_mappings, decoded[1])
  ELSE decoded[1]

\* handlers that go on without the test of the looked-up path
IsStale_NotTested(encoded_path, state_data) == FALSE

\* the token names a digest that the path table does not hold
IsStale(encoded_path, state_data) ==
  decode_path_smart(encoded_path)[2] /\ ResolveToken(encoded_path, state_data) = NoPath

frame_nav == <<codec, Config_MAX_FILE_SIZE, yandex_tokens, uploaded_files, jobs,
               temp_files, api_methods, limiter, stream>>

\* callback_view_all_disk
ViewAllDisk(u, db_ok, db2_ok, api_ok) ==
  /\ IF ~db_ok THEN Answer(u, "view_all_disk", S_view_all_disk, NoPath, FALSE, "db_error", <<>>)
     ELSE IF ~yandex_tokens[u].present \/ ~yandex_tokens[u].is_valid
     THEN Answer(u, "view_all_disk", S_view_all_disk, NoPath, TRUE, "not_configured", <<>>)
     ELSE /\ fsm_state' = [fsm_state EXCEPT ![u] = "browsing"]
          /\ ApplyBrowse(u, "view_all_disk", S_view_all_disk, P_root, db2_ok /\ api_ok,
                         browse_directory(u, P_root, 0, "browse", db2_ok, api_ok,
                                          fsm_data[u], remote_deleted), <<>>)
          /\ UNCHANGED remote_deleted
  /\ UNCHANGED frame_nav

\* a handler that resolves its token and renders the path in browse mode
ResolveAndBrowse(u, handler, data, encoded_path, offset, db_ok, api_ok) ==
  LET path == ResolveToken(encoded_path, fsm_data[u]) IN
  IF path = DecodeError THEN Answer(u, handler, data, NoPath, TRUE, "exception", <<>>)
  ELSE IF IsStale(encoded_path, fsm_data[u])
  THEN Answer(u, handler, data, NoPath, TRUE, "stale", <<>>)
  ELSE /\ ApplyBrowse(u, handler, data, path, db_ok /\ api_ok,
                      browse_directory(u, path, offset, "browse", db_ok, api_ok,
                                       fsm_data[u], remote_deleted), <<>>)
       /\ UNCHANGED <<fsm_state, remote_deleted>>

\* callback_nav_open
NavOpen(u, data, db_ok, api_ok) ==
  /\ StartsWith(data, S_nav_open)
  /\ ResolveAndBrowse(u, "nav_open", data, DropPrefix(data, 9), 0, db_ok, api_ok)
  /\ UNCHANGED frame_nav

\* callback_nav_page: data.split('_', 3) is ['nav', 'page', offset, encoded]
NavPage(u, data, db_ok, api_ok) ==
  /\ StartsWith(data, S_nav_page)
  /\ LET rest == DropPrefix(data, 9)
         i == FirstIndexOf(rest, 95)
     IN IF i = 0 \/ i = 1 \/ \E k \in 1..(i - 1) : rest[k] < 48 \/ rest[k] > 57
        THEN Answer(u, "nav_page", data, NoPath, TRUE, "exception", <<>>)
        ELSE ResolveAndBrowse(u, "nav_page", data, DropPrefix(rest, i),
                              StrToInt(SubSeq(rest, 1, i - 1)), db_ok, api_ok)
  /\ UNCHANGED frame_nav

\* callback_nav_up
NavUp(u, data, db_ok, api_ok) ==
  /\ StartsWith(data, S_nav_up)
  /\ ResolveAndBrowse(u, "nav_up", data, DropPrefix(data, 7), 0, db_ok, api_ok)
  /\ UNCHANGED frame_nav

\* callback_nav_close
NavClose(u, data) ==
  /\ data = S_nav_close
  /\ fsm_state' = [fsm_state EXCEPT ![u] = None]
  /\ fsm_data' = [fsm_data EXCEPT ![u] = EmptyData]
  /\ chat' = [chat EXCEPT ![u].keyboard = <<>>]
  /\ event' = Ev(u, "nav_close", data, NoPath, TRUE, "closed", <<>>, NoRender)
  /\ UNCHANGED remote_deleted
  /\ UNCHANGED frame_nav

\* the entries of the remote store
RemoteDirs == {P_root, P_docs, P_vac}

RemoteEntries ==
  UNION {{RemoteChildren(d)[i] : i \in 1..Len(RemoteChildren(d))} : d \in RemoteDirs}

\* the files of the remote store: the entries of the listing and what the
\* bot has uploaded (a row of uploaded_files is written after the PUT)
Exists(path, deleted) ==
  /\ path \notin deleted
  /\ \/ \E e \in RemoteEntries : e.path = path
     \/ \E i \in 1..Len(uploaded_files) : uploaded_files[i].yandex_path = path

\* getResourceInfo(path) -> Entry, or the failure of a path that has no entry
get_resource_info(path, deleted) ==
  IF Exists(path, deleted)
  THEN [found |-> TRUE, entry |-> CHOOSE e \in RemoteEntries : e.path = path]
  ELSE [found |-> FALSE]

\* YandexDiskAPI.delete_file: True for the status 204 or 202, False for any
\* other status and for any exception
delete_file(path, api_ok, deleted) == api_ok /\ Exists(path, deleted)

\* callback_nav_delete
NavDelete(u, data, db_ok, api_ok) ==
  /\ StartsWith(data, S_nav_delete)
  /\ LET encoded_path == DropPrefix(data, 11)
         path == ResolveToken(encoded_path, fsm_data[u])
         env_ok == db_ok /\ api_ok
     IN
     IF path = DecodeError THEN Answer(u, "nav_delete", data, NoPath, TRUE, "exception", <<>>)
     ELSE IF IsStale(encoded_path, fsm_data[u])
     THEN Answer(u, "nav_delete", data, NoPath, TRUE, "stale", <<>>)
     ELSE IF ~db_ok THEN Answer(u, "nav_delete", data, path, FALSE, "db_error", <<>>)
     ELSE IF ~yandex_tokens[u].present
     THEN Answer(u, "nav_delete", data, path, TRUE, "no_token", <<>>)
     ELSE IF "get_resource_info" \notin api_methods
     THEN Answer(u, "nav_delete", data, path, env_ok, "info_error", <<>>)
     ELSE IF ~api_ok \/ ~get_resource_info(path, remote_deleted).found
     THEN Answer(u, "nav_delete", data, path, api_ok, "info_error",
                 <<Call("get_resource_info", path)>>)
     ELSE /\ fsm_data' = [fsm_data EXCEPT ![u].delete_path = path]
          /\ fsm_state' = [fsm_state EXCEPT ![u] = "confirming_delete"]
          /\ event' = Ev(u, "nav_delete", data, path, TRUE, "confirm_asked",
                         <<Call("get_resource_info", path)>>, NoRender)
          /\ chat' = [chat EXCEPT ![u].old = @ \cup ConfirmData]
          /\ UNCHANGED remote_deleted
  /\ UNCHANGED frame_nav

\* what the handlers of the confirmation do after state.clear()
Cleared(u, handler, data, path, env_ok, outcome) ==
  /\ fsm_state' = [fsm_state EXCEPT ![u] = None]
  /\ fsm_data' = [fsm_data EXCEPT ![u] = EmptyData]
  /\ event' = Ev(u, handler, data, path, env_ok, outcome, <<>>, NoRender)
  /\ UNCHANGED <<chat, remote_deleted>>

\* callback_nav_confirm_delete; edit_ok: the edit of the confirmation message
\* to the text of the success does not raise
NavConfirmDelete(u, data, db_ok, api_ok, edit_ok, db2_ok, api2_ok) ==
  /\ data = S_nav_confirm_del_yes
  /\ LET path == fsm_data[u].delete_path
         deleted == delete_file(path, api_ok, remote_deleted)
         gone == remote_deleted \cup {path}
     IN
     IF fsm_state[u] # "confirming_delete"
     THEN Answer(u, None, data, NoPath, TRUE, "unhandled", <<>>)
     ELSE IF path = NoPath THEN Cleared(u, "nav_confirm_delete", data, path, TRUE, "no_path")
     ELSE IF ~db_ok THEN Cleared(u, "nav_confirm_delete", data, path, FALSE, "db_error")
     ELSE IF ~yandex_tokens[u].present
     THEN Cleared(u, "nav_confirm_delete", data, path, TRUE, "no_token")
     ELSE IF ~deleted
     THEN /\ fsm_state' = [fsm_state EXCEPT ![u] = "browsing"]
          /\ event' = Ev(u, "nav_confirm_delete", data, path, FALSE, "delete_failed",
                         <<Call("delete_file", path)>>, NoRender)
          /\ UNCHANGED <<fsm_data, chat, remote_deleted>>
     ELSE IF ~edit_ok
     THEN /\ fsm_state' = [fsm_state EXCEPT ![u] = "browsing"]
          /\ remote_deleted' = gone
          /\ event' = Ev(u, "nav_confirm_delete", data, path, FALSE, "exception_caught",
                         <<Call("delete_file", path)>>, NoRender)
          /\ UNCHANGED <<fsm_data, chat>>
     ELSE /\ fsm_state' = [fsm_state EXCEPT ![u] = "browsing"]
          /\ remote_deleted' = gone
          /\ ApplyBrowse(u, "nav_confirm_delete", data, path, db2_ok /\ api2_ok,
                         browse_directory(u, ParentPath(path), 0, "browse", db2_ok,
                                          api2_ok, fsm_data[u], gone),
                         <<Call("delete_file", path)>>)
  /\ UNCHANGED frame_nav

\* a cancel that edits the message and leaves the state as it is
NavCancelDelete_KeepsState(u, data) ==
  /\ data = S_nav_confirm_del_no
  /\ IF fsm_state[u] # "confirming_delete"
     THEN Answer(u, None, data, NoPath, TRUE, "unhandled", <<>>)
     ELSE /\ event' = Ev(u, "nav_cancel_delete", data, NoPath, TRUE, "cancelled", <<>>,
                         NoRender)
          /\ UNCHANGED <<fsm_state, fsm_data, chat, remote_deleted>>
  /\ UNCHANGED frame_nav

\* callback_nav_cancel_delete
NavCancelDelete(u, data) ==
  /\ data = S_nav_confirm_del_no
  /\ IF fsm_state[u] # "confirming_delete"
     THEN Answer(u, None, data, NoPath, TRUE, "unhandled", <<>>)
     ELSE /\ fsm_state' = [fsm_state EXCEPT ![u] = "browsing"]
          /\ event' = Ev(u, "nav_cancel_delete", data, NoPath, TRUE, "cancelled", <<>>,
                         NoRender)
          /\ UNCHANGED <<fsm_data, chat, remote_deleted>>
  /\ UNCHANGED frame_nav

\* callback_nav_info: the information is sent as a message of its own
NavInfo(u, data, db_ok, api_ok) ==
  /\ StartsWith(data, S_nav_info)
  /\ LET encoded_path == DropPrefix(data, 9)
         path == ResolveToken(encoded_path, fsm_data[u])
     IN
     IF path = DecodeError THEN Answer(u, "nav_info", data, NoPath, TRUE, "exception", <<>>)
     ELSE IF IsStale(encoded_path, fsm_data[u])
     THEN Answer(u, "nav_info", data, NoPath, TRUE, "stale", <<>>)
     ELSE IF ~db_ok THEN Answer(u, "nav_info", data, path, FALSE, "db_error", <<>>)
     ELSE IF ~yandex_tokens[u].present
     THEN Answer(u, "nav_info", data, path, TRUE, "no_token", <<>>)
     ELSE IF "get_resource_info" \notin api_methods
     THEN Answer(u, "nav_info", data, path, api_ok, "info_error", <<>>)
     ELSE IF ~api_ok \/ ~get_resource_info(path, remote_deleted).found
     THEN Answer(u, "nav_info", data, path, api_ok, "info_error",
                 <<Call("get_resource_info", path)>>)
     ELSE Answer(u, "nav_info", data, path, TRUE, "info_shown",
                 <<Call("get_resource_info", path)>>)
  /\ UNCHANGED frame_nav

\* callback_nav_publish; the store lists every entry without a public link,
\* so the handler takes the branch that creates the link; pub_ok: the call of
\* publish_resource does not raise
NavPublish(u, data, db_ok, api_ok, pub_ok, db2_ok, api2_ok) ==
  /\ StartsWith(data, S_nav_publish)
  /\ LET encoded_path == DropPrefix(data, 12)
         path == ResolveToken(encoded_path, fsm_data[u])
         info == <<Call("get_resource_info", path)>>
         both == Append(info, Call("publish_resource", path))
     IN
     IF path = DecodeError THEN Answer(u, "nav_publish", data, NoPath, TRUE, "exception", <<>>)
     ELSE IF IsStale(encoded_path, fsm_data[u])
     THEN Answer(u, "nav_publish", data, NoPath, TRUE, "stale", <<>>)
     ELSE IF ~db_ok THEN Answer(u, "nav_publish", data, path, FALSE, "db_error", <<>>)
     ELSE IF ~yandex_tokens[u].present
     THEN Answer(u, "nav_publish", data, path, TRUE, "no_token", <<>>)
     ELSE IF "get_resource_info" \notin api_methods
     THEN Answer(u, "nav_publish", data, path, api_ok, "publish_error", <<>>)
     ELSE IF ~api_ok \/ ~get_resource_info(path, remote_deleted).found
     THEN Answer(u, "nav_publish", data, path, api_ok, "publish_error", info)
     ELSE IF "publish_resource" \notin api_methods
     THEN Answer(u, "nav_publish", data, path, pub_ok, "publish_error", info)
     ELSE IF ~pub_ok
     THEN Answer(u, "nav_publish", data, path, FALSE, "publish_error", both)
     ELSE IF fsm_state[u] # "browsing"
     THEN Answer(u, "nav_publish", data, path, TRUE, "published", both)
     ELSE /\ ApplyBrowse(u, "nav_publish", data, path, db2_ok /\ api2_ok,
                         browse_directory(u, ParentPath(path), 0, "browse", db2_ok,
                                          api2_ok, fsm_data[u], remote_deleted), both)
          /\ UNCHANGED <<fsm_state, remote_deleted>>
  /\ UNCHANGED frame_nav

\* button_upload: the message of the main-menu button; the page is sent as a
\* new message, so an error text leaves the keyboard shown before in place
ButtonUpload(u, db_ok, db2_ok, api_ok) ==
  /\ IF ~db_ok THEN Answer(u, "button_upload", <<>>, NoPath, FALSE, "db_error", <<>>)
     ELSE IF ~yandex_tokens[u].present \/ ~yandex_tokens[u].is_valid
     THEN Answer(u, "button_upload", <<>>, NoPath, TRUE, "not_configured", <<>>)
     ELSE LET res == browse_directory(u, P_root, 0, "select", db2_ok, api_ok,
                                      fsm_data[u], remote_deleted)
          IN /\ fsm_state' = [fsm_state EXCEPT ![u] = "selecting_upload_folder"]
             /\ fsm_data' = [fsm_data EXCEPT ![u] = res.state_data]
             /\ chat' = IF res.outcome = "rendered"
                        THEN [chat EXCEPT ![u] =
                                [keyboard |-> res.keyboard, old |-> @.old,
                                 indirect |-> @.indirect \cup res.indirect,
                                 requests |-> @.requests, renders |-> @.renders]]
                        ELSE chat
             /\ event' = Ev(u, "button_upload", <<>>, P_root, db2_ok /\ api_ok,
                            res.outcome, res.calls, res.rendered)
             /\ UNCHANGED remote_deleted
  /\ UNCHANGED frame_nav

\* callback_nav_select_folder: the folder is kept for the next upload and the
\* message that carries the pressed button is deleted (line 1377): the browser
\* keyboard, or else the earlier message of the button
NavSelect(u, data) ==
  /\ StartsWith(data, S_nav_select)
  /\ LET encoded_path == DropPrefix(data, 11)
         path == ResolveToken(encoded_path, fsm_data[u])
     IN
     IF path = DecodeError THEN Answer(u, "nav_select", data, NoPath, TRUE, "exception", <<>>)
     ELSE IF IsStale(encoded_path, fsm_data[u])
     THEN Answer(u, "nav_select", data, NoPath, TRUE, "stale", <<>>)
     ELSE /\ fsm_data' = [fsm_data EXCEPT ![u].upload_folder = path]
          /\ fsm_state' = [fsm_state EXCEPT ![u] = "uploading"]
          /\ chat' = IF data \in KeyboardData(chat[u].keyboard)
                     THEN [chat EXCEPT ![u].keyboard = <<>>]
                     ELSE [chat EXCEPT ![u].old = @ \ {data}]
          /\ event' = Ev(u, "nav_select", data, path, TRUE, "folder_selected", <<>>,
                         NoRender)
          /\ UNCHANGED remote_deleted
  /\ UNCHANGED frame_nav

\* the request of a handler that fails, if any: the read of the token row, the
\* call of the remote store, the edit of the message, and the read and the
\* call of the browse_directory that ends the handler
EnvOutcomes == {"ok", "db", "api", "edit", "pub", "db2", "api2"}

\* the arrival of one update for each handler, with the buttons that the user
\* can press and the requests that can fail
OnViewAllDisk ==
  \E u \in Users, env \in {"ok", "db", "db2", "api2"} :
    ViewAllDisk(u, env # "db", env # "db2", env # "api2")

OnNavOpen ==
  \E u \in Users : \E data \in Pressable(u) : \E env \in {"ok", "db2", "api2"} :
    NavOpen(u, data, env # "db2", env # "api2")

OnNavPage ==
  \E u \in Users : \E data \in Pressable(u) : \E env \in {"ok", "db2", "api2"} :
    NavPage(u, data, env # "db2", env # "api2")

OnNavUp ==
  \E u \in Users : \E data \in Pressable(u) : \E env \in {"ok", "db2", "api2"} :
    NavUp(u, data, env # "db2", env # "api2")

OnNavDelete ==
  \E u \in Users : \E data \in Pressable(u) : \E env \in {"ok", "db", "api"} :
    NavDelete(u, data, env # "db", env # "api")

OnNavConfirmDelete ==
  \E u \in Users : \E data \in Pressable(u) : \E env \in EnvOutcomes \ {"pub"} :
    NavConfirmDelete(u, data, env # "db", env # "api", env # "edit",
                     env # "db2", env # "api2")

OnNavCancelDelete == \E u \in Users : \E data \in Pressable(u) : NavCancelDelete(u, data)

OnNavClose == \E u \in Users : \E data \in Pressable(u) : NavClose(u, data)

OnNavInfo ==
  \E u \in Users : \E data \in Pressable(u) : \E env \in {"ok", "db", "api"} :
    NavInfo(u, data, env # "db", env # "api")

OnNavPublish ==
  \E u \in Users : \E data \in Pressable(u) : \E env \in EnvOutcomes \ {"edit"} :
    NavPublish(u, data, env # "db", env # "api", env # "pub", env # "db2",
               env # "api2")

OnButtonUpload ==
  \E u \in Users, env \in {"ok", "db", "db2", "api2"} :
    ButtonUpload(u, env # "db", env # "db2", env # "api2")

OnNavSelect == \E u \in Users : \E data \in Pressable(u) : NavSelect(u, data)

\* every handler of the file browser
NavNext ==
  \/ OnViewAllDisk
  \/ OnNavOpen
  \/ OnNavPage
  \/ OnNavUp
  \/ OnNavDelete
  \/ OnNavConfirmDelete
  \/ OnNavCancelDelete
  \/ OnNavClose
  \/ OnNavInfo
  \/ OnNavPublish
  \/ OnButtonUpload
  \/ OnNavSelect

\* browsing and deleting
NavBrowseNext ==
  \/ OnViewAllDisk
  \/ OnNavOpen
  \/ OnNavPage
  \/ OnNavUp
  \/ OnNavDelete
  \/ OnNavConfirmDelete
  \/ OnNavCancelDelete
  \/ OnNavClose

\* choosing the folder of the next upload
NavSelectNext ==
  \/ OnButtonUpload
  \/ OnNavOpen
  \/ OnNavPage
  \/ OnNavUp
  \/ OnNavSelect
  \/ OnNavClose

\* the browser after a restart of the bot, with the API client as service.py
\* defines it: the FSM storage is empty and the chats hold earlier messages
NavInit ==
  /\ codec = CodecIdle
  /\ stream = StreamIdle
  /\ Config_MAX_FILE_SIZE = DefaultMaxFileSize
  /\ yandex_tokens = InitialTokens
  /\ uploaded_files = <<>>
  /\ fsm_state = [u \in Users |-> None]
  /\ fsm_data = [u \in Users |-> EmptyData]
  /\ jobs = [j \in Jobs |-> NoJob]
  /\ temp_files = <<>>
  /\ NavIdle
  /\ chat = [u \in Users |-> [NoChat EXCEPT !.old = BookmarkData]]
  /\ api_methods = ServiceMethods

SpecNav == NavInit /\ [][NavNext]_vars

\* a page button of an earlier message
OldPageData ==
  {S_nav_page \o IntToStr(PageLimit) \o <<95>> \o encode_path_smart(P_docs)}

\* the browser in chats that hold one earlier page button, with an API client
\* that also has the methods the handlers call
NavListedInit ==
  /\ codec = CodecIdle
  /\ stream = StreamIdle
  /\ Config_MAX_FILE_SIZE = DefaultMaxFileSize
  /\ yandex_tokens = InitialTokens
  /\ uploaded_files = <<>>
  /\ fsm_state = [u \in Users |-> None]
  /\ fsm_data = [u \in Users |-> EmptyData]
  /\ jobs = [j \in Jobs |-> NoJob]
  /\ temp_files = <<>>
  /\ NavIdle
  /\ chat = [u \in Users |-> [NoChat EXCEPT !.old = OldPageData]]
  /\ api_methods = ServiceMethods \cup ListingMethods

SpecNavListed == NavListedInit /\ [][NavBrowseNext]_vars

\* the same chats and API client while a user chooses an upload folder
SpecNavSelect == NavListedInit /\ [][NavSelectNext]_vars

(***************************************************************************)
(* Claims about the file browser.                                          *)
(***************************************************************************)
\* C3: an indirect token that a render showed to a user for path p resolves,
\* through the path table of that user, to p or to nothing (the stale
\* reference), never to another path.
IndirectConsistency ==
  \A u \in Users : \A t \in chat[u].indirect :
    ResolveToken(t[1], fsm_data[u]) \in {t[2], NoPath}

\* C5: a delete request with a resolvable token by a user with a credential
\* leaves the user in confirming_delete with the resolved path as delete_path;
\* a confirmation calls delete_file with exactly that path, leaves the user
\* out of confirming_delete and renders the parent of the path in browse mode
\* (the database and the remote store answering).
DeleteFlow ==
  /\ (event.handler = "nav_delete" /\ event.env_ok /\ event.path # NoPath
        /\ yandex_tokens[event.user].present) =>
       /\ fsm_state[event.user] = "confirming_delete"
       /\ fsm_data[event.user].delete_path = event.path
  /\ (event.handler = "nav_confirm_delete" /\ event.env_ok) =>
       /\ SelectSeq(event.calls, LAMBDA c : c.op = "delete_file")
            = <<Call("delete_file", event.path)>>
       /\ fsm_state[event.user] # "confirming_delete"
       /\ event.rendered =
            [path |-> ParentPath(event.path), offset |-> 0, mode |-> "browse"]

\* the mode a page was rendered in: only a select-mode page has the button
\* nav_select_
PageMode(keyboard) ==
  IF \E d \in KeyboardData(keyboard) : StartsWith(d, S_nav_select)
  THEN "select" ELSE "browse"

\* C13: a page reached through an open, page or up button of the page shown
\* is rendered in the mode of the page that held the button.
ModeThreading ==
  [][\A u \in Users :
       (/\ event'.user = u
        /\ event'.handler \in {"nav_open", "nav_page", "nav_up"}
        /\ event'.outcome = "rendered"
        /\ event'.data \in KeyboardData(chat[u].keyboard))
       => /\ event'.rendered.mode = PageMode(chat[u].keyboard)
          /\ PageMode(chat'[u].keyboard) = PageMode(chat[u].keyboard)]_vars

\* the path token that a callback_data carries after its prefix, <<>> when it
\* carries none
DataToken(data) ==
  IF StartsWith(data, S_nav_page)
  THEN LET rest == DropPrefix(data, 9) IN DropPrefix(rest, FirstIndexOf(rest, 95))
  ELSE IF StartsWith(data, S_nav_open) \/ StartsWith(data, S_nav_info)
  THEN DropPrefix(data, 9)
  ELSE IF StartsWith(data, S_nav_publish) THEN DropPrefix(data, 12)
  ELSE IF StartsWith(data, S_nav_delete) \/ StartsWith(data, S_nav_select)
  THEN DropPrefix(data, 11)
  ELSE IF StartsWith(data, S_nav_up) THEN DropPrefix(data, 7)
  ELSE <<>>

\* the digests of the indirect tokens on a keyboard
ShownDigests(keyboard) ==
  {DropPrefix(DataToken(d), 2) :
     d \in {e \in KeyboardData(keyboard) : StartsWith(DataToken(e), S_hc)}}

TokenHandlers ==
  {"nav_open", "nav_page", "nav_info", "nav_publish", "nav_delete", "nav_up",
   "nav_select"}

\* C15: a handler that gets a token whose digest is not in the path table of
\* the user answers "path not found, try again", calls nothing on the remote
\* store and leaves the FSM state and the FSM data of the user as they were.
StaleReference ==
  [][(/\ event'.handler \in TokenHandlers
      /\ StartsWith(DataToken(event'.data), S_hc)
      /\ DropPrefix(DataToken(event'.data), 2)
           \notin DOMAIN fsm_data[event'.user].path_mappings)
     => /\ event'.outcome = "stale"
        /\ event'.calls = <<>>
        /\ fsm_state' = fsm_state
        /\ fsm_data' = fsm_data]_vars

\* the button that selects a folder was pressed with a digest that the table
\* does not hold
StaleReferenceWitness ==
  /\ event.handler = "nav_select"
  /\ event.outcome = "stale"
  /\ StartsWith(DataToken(event.data), S_hc)
  /\ DropPrefix(DataToken(event.data), 2) \notin DOMAIN fsm_data[event.user].path_mappings

(***************************************************************************)
(* Claims about the pagination row, the breadcrumb and the listing order.  *)
(***************************************************************************)
\* the keyboard has a control with this icon
HasControl(keyboard, icon) ==
  \E i \in 1..Len(Flatten(keyboard)) : Flatten(keyboard)[i].icon = icon

\* C16: on every rendered page, for any offset and any total, the "previous"
\* control is shown exactly when offset > 0 and the "next" control exactly
\* when offset + limit < total.
PaginationControls ==
  codec.phase = "keyboard" =>
    /\ HasControl(codec.keyboard, "prev") <=> codec.offset > 0
    /\ HasControl(codec.keyboard, "next") <=> codec.offset + PageLimit < codec.total

\* the non-empty segments of a path
Segments(path) == SelectSeq(SplitSlash(path), LAMBDA p : p # <<>>)

\* C18: for a path with n non-empty segments the breadcrumb shows the last
\* min(n, 3) segments in the order of the path, and it starts with the
\* ellipsis marker exactly when n > 3.
BreadcrumbBound ==
  codec.phase = "breadcrumb" =>
    LET segs == Segments(codec.path)
        n == Len(segs)
    IN /\ codec.breadcrumb.parts = SubSeq(segs, n - Min(n, 3) + 1, n)
       /\ codec.breadcrumb.kind = "tail" <=> n > 3

\* the breadcrumb of a path with more than three segments has been built
BreadcrumbBoundWitness ==
  /\ codec.phase = "breadcrumb"
  /\ Len(Segments(codec.path)) > 3
  /\ codec.breadcrumb.kind = "tail"
  /\ Len(codec.breadcrumb.parts) = 3

\* the rows of a keyboard that show an entry of the listing
EntryRows(keyboard) ==
  SelectSeq(keyboard, LAMBDA row : row[1].icon \in {"folder", "file"})

\* what a row shows of its entry: the type, the label and the token
EntryOfRow(row) ==
  [type |-> IF row[1].icon = "folder" THEN "dir" ELSE "file",
   label |-> row[1].label,
   token |-> DataToken(row[1].callback_data)]

\* C19: on every rendered page all folders come before all files, and the
\* folders among themselves and the files among themselves are in the order
\* in which the remote API returned them.
ListingOrder ==
  codec.phase = "keyboard" =>
    LET rows == EntryRows(codec.keyboard)
        items == CodecListing(codec.item_path)
        is_dir(i) == items[i].type = "dir"
        \* the place of item i on the page: the folders before it when it
        \* is a folder, all folders and the files before it when it is a file
        place(i) ==
          IF is_dir(i)
          THEN Cardinality({j \in 1..i : is_dir(j)})
          ELSE Cardinality({j \in 1..Len(items) : is_dir(j)})
                 + Cardinality({j \in 1..i : ~is_dir(j)})
    IN /\ Len(rows) = Len(items)
       /\ \A i \in 1..Len(rows), j \in 1..Len(rows) :
            (i < j /\ EntryOfRow(rows[j]).type = "dir") => EntryOfRow(rows[i]).type = "dir"
       /\ \A i \in 1..Len(items) :
            /\ EntryOfRow(rows[place(i)]).type = items[i].type
            /\ EntryOfRow(rows[place(i)]).token = encode_path_smart(items[i].path)

\* a page of a listing that starts with a file and holds two different
\* files and two different folders
ListingOrderWitness ==
  /\ codec.phase = "keyboard"
  /\ codec.item_path \notin {P_report, P_docs}
  /\ CodecListing(codec.item_path)[1].type = "file"
  /\ Len(EntryRows(codec.keyboard)) = 4
  /\ EntryOfRow(EntryRows(codec.keyboard)[1]).type = "dir"
  /\ EntryOfRow(EntryRows(codec.keyboard)[4]).type = "file"

(***************************************************************************)
(* Paging through one directory whose number of entries changes between    *)
(* the renders (callback_nav_page and the pagination row of the keyboard). *)
(***************************************************************************)
\* the largest number of full pages of the directory
PagingMaxPages == 3

\* the totals that list_directory reports
PagingTotals ==
  {0, 15} \cup {PageLimit * k : k \in 1..PagingMaxPages}
          \cup {PageLimit * k + 5 : k \in 1..PagingMaxPages}

PagingPaths == CodecPaths \ {<<>>}

\* the entries of a page stand for the slice that list_directory returns:
\* none when the offset is not below the total
PagingItems(offset, total) ==
  IF offset < total THEN CodecListing(P_report) ELSE <<>>

\* lines 864-865 of browse_directory: the table holds the digest of the path
\* of the page that is shown
PagingTable(path) == store_path_mapping(<<>>, hash_path(path), path)

\* browse_directory(callback, user_id, path, offset, state) when the remote
\* store reports total entries
PageRender(path, offset, total, data) ==
  [CodecIdle EXCEPT !.phase = "page", !.path = path, !.offset = offset,
                    !.total = total, !.token = data,
                    !.keyboard = get_file_browser_keyboard(
                       PagingItems(offset, total), path, offset, total, "browse")]

\* callback_nav_page: parts = data.split('_', 3), offset = int(parts[2]),
\* the path from parts[3]
PageOffsetOf(data) ==
  LET rest == DropPrefix(data, 9) IN
  StrToInt(SubSeq(rest, 1, FirstIndexOf(rest, 95) - 1))

PagePathOf(data, mappings) ==
  LET rest == DropPrefix(data, 9)
      pair == decode_path_smart(DropPrefix(rest, FirstIndexOf(rest, 95)))
  IN IF pair[2] THEN get_path_from_hash(mappings, pair[1]) ELSE pair[1]

\* the first page of a directory, as callback_nav_open renders it
PagingInit ==
  /\ UploadIdle
  /\ stream = StreamIdle
  /\ codec \in {PageRender(p, 0, t, <<>>) : p \in PagingPaths, t \in PagingTotals}

\* the user presses the control with this icon of the page that is shown,
\* and the directory has new_total entries when callback_nav_page lists it
PressPage(icon, new_total) ==
  /\ codec.phase = "page"
  /\ \E i \in 1..Len(Flatten(codec.keyboard)) :
       LET button == Flatten(codec.keyboard)[i]
           path == PagePathOf(button.callback_data, PagingTable(codec.path))
       IN /\ button.icon = icon
          /\ path # NoPath
          /\ codec' = PageRender(path, PageOffsetOf(button.callback_data),
                                 new_total, button.callback_data)
  /\ UNCHANGED <<upload_vars, nav_vars, limiter, stream>>

OnPressPrev == \E t \in PagingTotals : PressPage("prev", t)

OnPressNext == \E t \in PagingTotals : PressPage("next", t)

PagingNext == OnPressPrev \/ OnPressNext

SpecPaging == PagingInit /\ [][PagingNext]_vars

\* C17: whatever renders and page navigations came before, and however the
\* total of the directory changed between them, every offset in a "previous"
\* or "next" token of a page is at least 0 and below the total of that page.
PaginationOffsets ==
  codec.phase = "page" =>
    \A i \in 1..Len(Flatten(codec.keyboard)) :
      LET button == Flatten(codec.keyboard)[i] IN
      button.icon \in {"prev", "next"} =>
        /\ PageOffsetOf(button.callback_data) >= 0
        /\ PageOffsetOf(button.callback_data) < codec.total

(***************************************************************************)
(* Claims about the rendering of a directory.                              *)
(***************************************************************************)
\* the handlers that end with a call of browse_directory in browse mode
BrowseHandlers == {"view_all_disk", "nav_open", "nav_page", "nav_up"}

\* the offset that the handler of an event passes to browse_directory
GivenOffset(e) == IF e.handler = "nav_page" THEN PageOffsetOf(e.data) ELSE 0

\* C20: when the user has a stored token and the remote store answers,
\* browse_directory asks for exactly one page of 20 entries at the given
\* offset of the given path and shows the page built from the items and the
\* total that came back, not an error message.
DirectoryRender ==
  (/\ event.handler \in BrowseHandlers
   /\ event.path # NoPath
   /\ event.env_ok
   /\ yandex_tokens[event.user].present)
  => LET dir_data == list_directory(event.path, PageLimit, GivenOffset(event),
                                    remote_deleted)
     IN /\ event.outcome = "rendered"
        /\ event.calls = <<ListCall(event.path, PageLimit, GivenOffset(event))>>
        /\ chat[event.user].keyboard =
             get_file_browser_keyboard(dir_data.items, event.path,
                                       GivenOffset(event), dir_data.total, "browse")

(***************************************************************************)
(* The choice of an upload folder followed by uploads.  Each chat holds    *)
(* one message with the button "use this folder" of /Docs; the handlers of *)
(* the uploads run as tasks that interleave at their awaits.               *)
(***************************************************************************)
ChoiceData == {S_nav_select \o encode_path_smart(P_docs)}

ChoiceInit ==
  /\ codec = CodecIdle
  /\ stream = StreamIdle
  /\ Config_MAX_FILE_SIZE = DefaultMaxFileSize
  /\ yandex_tokens = InitialTokens
  /\ uploaded_files = <<>>
  /\ fsm_state = [u \in Users |-> None]
  /\ fsm_data = [u \in Users |-> EmptyData]
  /\ jobs = [j \in Jobs |-> NoJob]
  /\ temp_files = <<>>
  /\ NavIdle
  /\ chat = [u \in Users |-> [NoChat EXCEPT !.old = ChoiceData]]
  /\ api_methods = ServiceMethods

OnReceiveFile ==
  \E j \in Jobs, u \in Users : ReceiveFile(j, u, N_b, HandlerMaxFileSize)

OnLookupToken == \E j \in Jobs, db_ok \in BOOLEAN : LookupToken(j, db_ok)

OnStageFile == \E j \in Jobs, fetch \in {"ok", "fail"} : StageFile(j, fetch, TRUE)

OnGetUploadUrl == \E j \in Jobs, ok \in BOOLEAN : GetUploadUrl(j, ok, "ok")

OnStreamFile == \E j \in Jobs, ok \in BOOLEAN : StreamFile(j, ok, "ok")

OnPublishFile == \E j \in Jobs : PublishFile(j, TRUE)

OnSaveRecord == \E j \in Jobs : SaveRecord(j, TRUE)

OnReportSuccess == \E j \in Jobs : ReportSuccess(j, "ok")

ChoiceNext ==
  \/ OnNavSelect
  \/ OnReceiveFile
  \/ OnLookupToken
  \/ OnStageFile
  \/ OnGetUploadUrl
  \/ OnStreamFile
  \/ OnPublishFile
  \/ OnSaveRecord
  \/ OnReportSuccess

SpecChoice == ChoiceInit /\ [][ChoiceNext]_vars

\* job j has passed the credential check of lines 296-328
PassedCheck(j) ==
  /\ jobs[j].pc \notin {"none", "token"}
  /\ jobs[j].status \notin {"too_big", "token_error", "not_configured"}

\* job j found a chosen folder in the FSM data when its event arrived
ReadChoice(j) == jobs[j].upload_folder # NoPath

\* C21: after the choice of a folder the next upload of the user that passes
\* the credential check is written under the chosen folder and clears the
\* choice; every other upload, the one after it included, is written under
\* the default folder of the user.  (Each user can choose once here, and the
\* jobs are numbered in the order of their events.)
UploadDestination ==
  \A j \in Jobs :
    PassedCheck(j) =>
      LET u == jobs[j].user
          consumes ==
            /\ ReadChoice(j)
            /\ \A i \in 1..(j - 1) :
                 (jobs[i].user = u /\ PassedCheck(i)) => ~ReadChoice(i)
      IN /\ jobs[j].folder_name =
              IF consumes THEN jobs[j].upload_folder
              ELSE yandex_tokens[u].folder_name
         /\ ReadChoice(j) => fsm_data[u].upload_folder = NoPath

\* C22: when two uploads of one user interleave after one choice of a folder,
\* at most one of them is written under the chosen folder.
SingleConsumption ==
  \A i \in Jobs, j \in Jobs :
    (/\ i # j
     /\ jobs[i].user = jobs[j].user
     /\ PassedCheck(i) /\ PassedCheck(j)
     /\ ReadChoice(i))
    => ~(/\ jobs[i].folder_name = jobs[i].upload_folder
         /\ jobs[j].folder_name = jobs[i].upload_folder)

\* C24: a user who chose a folder is back in the idle state once the upload
\* of the next file has finished, whether it succeeded or failed.
UploadStateReturnsToIdle ==
  \A j \in Jobs :
    (jobs[j].pc = "done" /\ ReadChoice(j)) => fsm_state[jobs[j].user] = None

\* job j has staged its file and has not yet finished
ActiveJob(j) == jobs[j].pc \in {"get_url", "stream", "publish", "persist", "report"}

\* C23: two upload jobs that are active at the same time have different
\* local temporary paths, also when their sanitized names are equal, so the
\* staged file of an active job is in place and is the one that job wrote.
ExclusiveTempFile ==
  \A i \in Jobs :
    ActiveJob(i) =>
      /\ StagedFileExists(i)
      /\ \A j \in Jobs \ {i} :
           ActiveJob(j) => jobs[i].sanitized_name # jobs[j].sanitized_name

(***************************************************************************)
(* The upload button of the main menu.  Both modules register a message    *)
(* handler with the filter F.text == "Upload" (the button text); the       *)
(* dispatcher offers an update to the routers in the order in which main() *)
(* included them and runs the first handler whose filters pass.            *)
(***************************************************************************)
\* main(): load_module('modules.common'), then load_module('modules.yandex')
LoadedModules == <<"modules.common", "modules.yandex">>

\* the handler of each module for the text of the upload button
UploadButtonHandler(module) ==
  IF module = "modules.common" THEN "common.button_upload" ELSE "button_upload"

\* the handler that the dispatcher runs for the text of the upload button
DispatchUploadButton == UploadButtonHandler(LoadedModules[1])

\* modules.common.handlers.button_upload: a text that asks for a file
common_button_upload(u) ==
  /\ Answer(u, "common.button_upload", <<>>, NoPath, TRUE, "upload_help", <<>>)
  /\ UNCHANGED frame_nav

\* the user presses the upload button of the main menu
OnUploadButton ==
  \E u \in Users, env \in {"ok", "db", "db2", "api2"} :
    IF DispatchUploadButton = "common.button_upload"
    THEN env = "ok" /\ common_button_upload(u)
    ELSE ButtonUpload(u, env # "db", env # "db2", env # "api2")

MenuNext ==
  \/ OnUploadButton
  \/ OnViewAllDisk
  \/ OnNavOpen
  \/ OnNavPage
  \/ OnNavUp
  \/ OnNavClose

SpecMenu == NavListedInit /\ [][MenuNext]_vars

\* C25: when a user with a valid token presses the upload button of the main
\* menu, the user gets the state selecting_upload_folder and the root
\* directory is rendered in select mode.
EnterSelection ==
  (/\ event.handler \in {"common.button_upload", "button_upload"}
   /\ event.env_ok
   /\ yandex_tokens[event.user].present
   /\ yandex_tokens[event.user].is_valid)
  => /\ fsm_state[event.user] = "selecting_upload_folder"
     /\ event.rendered = [path |-> P_root, offset |-> 0, mode |-> "select"]

(***************************************************************************)
(* Claims about the pending delete.                                        *)
(***************************************************************************)
\* the path table holds an entry for the path
HoldsEntry(state_data, path) ==
  \E h \in DOMAIN state_data.path_mappings : state_data.path_mappings[h] = path

\* user u waits for the confirmation of the delete of a path
AwaitingDeleteConfirmation(u) ==
  fsm_state[u] = "confirming_delete" /\ fsm_data[u].delete_path # NoPath

\* C26: when an operation other than the confirmation removes the table entry
\* of the path of a pending delete, the pending delete stays as it was (the
\* state and the attached path), so that the confirmation deletes that path.
ConfirmationImmune ==
  [][\A u \in Users :
       (/\ AwaitingDeleteConfirmation(u)
        /\ HoldsEntry(fsm_data[u], fsm_data[u].delete_path)
        /\ ~HoldsEntry(fsm_data'[u], fsm_data[u].delete_path)
        /\ event'.data # S_nav_confirm_del_yes)
       => /\ fsm_state'[u] = "confirming_delete"
          /\ fsm_data'[u].delete_path = fsm_data[u].delete_path]_vars

UnrelatedHandlers == {"view_all_disk", "nav_open", "nav_page", "nav_up", "nav_close"}

\* C28: when a user who waits for a confirmation starts an unrelated command,
\* the pending delete is discarded, so that the old confirm control deletes
\* nothing afterwards.
ImplicitCancel ==
  [][\A u \in Users :
       (/\ AwaitingDeleteConfirmation(u)
        /\ event'.user = u
        /\ event'.handler \in UnrelatedHandlers
        /\ event'.outcome \in {"rendered", "closed"})
       => ~(/\ fsm_state'[u] = "confirming_delete"
            /\ fsm_data'[u].delete_path # NoPath)]_vars

\* C29: after a delete was confirmed, with or without success, or cancelled,
\* the FSM data of the user holds no delete path; after an upload has used a
\* chosen folder the FSM data holds no chosen folder.
PendingActionCleared ==
  /\ event.handler \in {"nav_confirm_delete", "nav_cancel_delete"}
       => fsm_data[event.user].delete_path = NoPath
  /\ \A j \in Jobs :
       (PassedCheck(j) /\ ReadChoice(j))
         => fsm_data[jobs[j].user].upload_folder = NoPath

(***************************************************************************)
(* Users without a row in yandex_tokens: the browser and the upload        *)
(* pipeline side by side, with the API client as service.py defines it.    *)
(***************************************************************************)
CredentialNext ==
  \/ OnViewAllDisk
  \/ OnNavOpen
  \/ OnReceiveFile
  \/ OnLookupToken
  \/ OnStageFile
  \/ OnGetUploadUrl
  \/ OnStreamFile
  \/ OnPublishFile
  \/ OnSaveRecord
  \/ OnReportSuccess

\* a folder button of an earlier message
OldFolderData == {S_nav_open \o encode_path_smart(P_docs)}

\* the bot after a restart, in chats that hold one earlier folder button
CredentialInit ==
  /\ codec = CodecIdle
  /\ stream = StreamIdle
  /\ Config_MAX_FILE_SIZE = DefaultMaxFileSize
  /\ yandex_tokens = InitialTokens
  /\ uploaded_files = <<>>
  /\ fsm_state = [u \in Users |-> None]
  /\ fsm_data = [u \in Users |-> EmptyData]
  /\ jobs = [j \in Jobs |-> NoJob]
  /\ temp_files = <<>>
  /\ NavIdle
  /\ chat = [u \in Users |-> [NoChat EXCEPT !.old = OldFolderData]]
  /\ api_methods = ServiceMethods

SpecCredential == CredentialInit /\ [][CredentialNext]_vars

\* the user has never completed /token
Unconfigured(u) == ~yandex_tokens[u].present

\* outcomes of a handler that stopped before or at the read of the table:
\* the database raised, or the token of the button did not resolve
BeforeCredential == {"db_error", "stale", "exception"}

\* C30: a directory render for a user without a stored token ends with the
\* "token not configured" text, renders nothing and calls no method of the
\* remote store; an upload by such a user ends with the same text, with no
\* call to the remote store and no get_file or download from Telegram, and
\* leaves nothing in TEMP_DIR
NotConfigured ==
  /\ (/\ event.user \in Users
      /\ Unconfigured(event.user)
      /\ event.handler \in BrowseHandlers)
     => /\ event.calls = <<>>
        /\ event.rendered = NoRender
        /\ event.outcome \notin BeforeCredential => event.outcome = "not_configured"
  /\ \A j \in Jobs :
       (jobs[j].pc # "none" /\ Unconfigured(jobs[j].user))
       => /\ jobs[j].calls = <<>>
          /\ jobs[j].steps = <<>>
          /\ jobs[j].pc \in {"token", "done"}
          /\ (jobs[j].pc = "done" /\ jobs[j].status # "too_big" /\ jobs[j].failed = {})
             => jobs[j].status = "not_configured"
          /\ \A n \in DOMAIN temp_files : temp_files[n].owner # j

\* u2 has pressed an old folder button and has sent a file; both ended with
\* the "token not configured" text, while a file of u1 has been fetched
NotConfiguredWitness ==
  /\ event.user = "u2"
  /\ event.handler = "nav_open"
  /\ event.outcome = "not_configured"
  /\ \E j \in Jobs :
       jobs[j].user = "u2" /\ jobs[j].pc = "done" /\ jobs[j].status = "not_configured"
  /\ \E j \in Jobs : jobs[j].user = "u1" /\ jobs[j].calls # <<>>

(***************************************************************************)
(* Two users who have both completed /token: their sessions in             *)
(* MemoryStorage and their uploads through the one TEMP_DIR.               *)
(***************************************************************************)
BothTokens ==
  [u \in Users |-> [present |-> TRUE, is_valid |-> TRUE, folder_name |-> S_TelegramBot]]

SharedInit ==
  /\ codec = CodecIdle
  /\ stream = StreamIdle
  /\ Config_MAX_FILE_SIZE = DefaultMaxFileSize
  /\ yandex_tokens = BothTokens
  /\ uploaded_files = <<>>
  /\ fsm_state = [u \in Users |-> None]
  /\ fsm_data = [u \in Users |-> EmptyData]
  /\ jobs = [j \in Jobs |-> NoJob]
  /\ temp_files = <<>>
  /\ NavIdle
  /\ chat = [u \in Users |-> [NoChat EXCEPT !.old = ChoiceData]]
  /\ api_methods = ServiceMethods

SpecShared == SharedInit /\ [][ChoiceNext]_vars

\* what MemoryStorage holds under the key of user u
Session(u) == <<fsm_state[u], fsm_data[u]>>

\* the step is the handling of a callback query of user u
CallbackStepOf(u) == jobs' = jobs /\ event'.user = u

\* the step is a step of an upload job of user u
UploadStepOf(u) == \E j \in Jobs : jobs'[j] # jobs[j] /\ jobs'[j].user = u

\* a step of user u leaves the FSM state and the FSM data of every other
\* user as they are
SessionIsolation ==
  [][\A u \in Users : \A v \in Users \ {u} :
       (CallbackStepOf(u) \/ UploadStepOf(u)) => Session(v)' = Session(v)]_vars

\* C31: the handling of an event of user u changes neither the session of
\* another user v (FSM state, pending path, path table) nor what the outcome
\* of a running upload of v depends on: the file that a job of v has staged
\* is still in place, and still the one that job wrote, after the step.
PerUserIsolation ==
  [][\A u \in Users : \A v \in Users \ {u} :
       (CallbackStepOf(u) \/ UploadStepOf(u))
       => /\ Session(v)' = Session(v)
          /\ \A j \in Jobs :
               (jobs[j].user = v /\ ActiveJob(j) /\ StagedFileExists(j))
               => StagedFileExists(j)']_vars

(***************************************************************************)
(* The life of the path table of one session.                              *)
(***************************************************************************)
\* the outcomes of callback_nav_confirm_delete that follow state.clear(); the
\* handler returns with them before it calls delete_file
ClearedOutcomes == {"no_path", "db_error", "no_token"}

\* the step is a handler of user u that calls state.clear()
SessionReset(u) ==
  /\ event'.user = u
  /\ \/ event'.handler = "nav_close"
     \/ /\ event'.handler = "nav_confirm_delete"
        /\ event'.outcome \in ClearedOutcomes
        /\ event'.calls = <<>>

\* every entry of table old is an entry of table new
Extends(new, old) == \A h \in DOMAIN old : h \in DOMAIN new /\ new[h] = old[h]

\* C32: a step that does not clear the session of a user keeps every entry of
\* that user's path table (renders, pages, the delete flow only add entries);
\* a step that clears the session leaves the table empty, so that every
\* indirect token shown before is stale.
PathTableLifecycle ==
  [][\A u \in Users :
       IF SessionReset(u)
       THEN /\ fsm_data'[u].path_mappings = <<>>
            /\ \A t \in chat'[u].indirect : IsStale(t[1], fsm_data'[u])
       ELSE Extends(fsm_data'[u].path_mappings, fsm_data[u].path_mappings)]_vars

\* the same for the digests alone: a step that does not clear the session
\* keeps every digest of the table, whatever path it then stands for
PathTableDigests ==
  [][\A u \in Users :
       IF SessionReset(u)
       THEN /\ fsm_data'[u].path_mappings = <<>>
            /\ \A t \in chat'[u].indirect : IsStale(t[1], fsm_data'[u])
       ELSE DOMAIN fsm_data[u].path_mappings \subseteq DOMAIN fsm_data'[u].path_mappings]_vars

(***************************************************************************)
(* RateLimitMiddleware (core/middleware.py).  time.time() is read in ticks *)
(* of 1/TicksPerSecond second and is taken not to run backwards.           *)
(***************************************************************************)
TicksPerSecond == 2

\* the last reading of the clock that the model follows
MaxTicks == 4

\* the values of RATE_LIMIT in the environment
MaxRateLimit == 2
RateLimits == 1..MaxRateLimit

\* a middleware that forgets the earlier requests
Recent_Forget(times, current_time) == <<>>

\* line 111: [t for t in user_times if current_time - t < 1.0]
Recent(times, current_time) ==
  SelectSeq(times, LAMBDA t : current_time - t < TicksPerSecond)

LimiterInit ==
  /\ codec = CodecIdle
  /\ stream = StreamIdle
  /\ Config_MAX_FILE_SIZE = DefaultMaxFileSize
  /\ yandex_tokens = InitialTokens
  /\ uploaded_files = <<>>
  /\ fsm_state = [u \in Users |-> None]
  /\ fsm_data = [u \in Users |-> EmptyData]
  /\ jobs = [j \in Jobs |-> NoJob]
  /\ temp_files = <<>>
  /\ remote_deleted = {}
  /\ event = NoEvent
  /\ chat = [u \in Users |-> NoChat]
  /\ api_methods = ServiceMethods
  /\ \E n \in RateLimits : limiter = [LimiterIdle EXCEPT !.rate_limit = n]

\* time passes between two updates
ClockTick ==
  /\ limiter.now < MaxTicks
  /\ limiter' = [limiter EXCEPT !.now = @ + 1]
  /\ UNCHANGED <<upload_vars, nav_vars, codec, stream>>

\* RateLimitMiddleware.__call__ for an update with a message or a callback
\* query of user u; passed holds the times at which handler(event, data) ran
LimitUpdate(u) ==
  LET current_time == limiter.now
      user_times == Recent(limiter.user_requests[u], current_time)
  IN
  /\ IF Len(user_times) >= limiter.rate_limit
     THEN limiter' = [limiter EXCEPT !.user_requests[u] = user_times,
                                     !.last = [user |-> u, at |-> current_time,
                                               verdict |-> "rejected"]]
     ELSE limiter' = [limiter EXCEPT !.user_requests[u] = Append(user_times, current_time),
                                     !.passed[u] = Append(@, current_time),
                                     !.last = [user |-> u, at |-> current_time,
                                               verdict |-> "passed"]]
  /\ UNCHANGED <<upload_vars, nav_vars, codec, stream>>

OnUpdate == \E u \in Users : LimitUpdate(u)

LimiterNext == ClockTick \/ OnUpdate

SpecLimiter == LimiterInit /\ [][LimiterNext]_vars

\* the number of updates of user u passed on at a time t with from <= t < to
PassedIn(u, from, to) ==
  Cardinality({i \in DOMAIN limiter.passed[u] :
                 from <= limiter.passed[u][i] /\ limiter.passed[u][i] < to})

IsSuffix(s, t) == Len(s) <= Len(t) /\ s = SubSeq(t, Len(t) - Len(s) + 1, Len(t))

\* C33: in every window of one second at most rate_limit updates of a user
\* are passed on to the handlers; the list of the limiter holds passed
\* updates only, so a rejected update does not count against later ones; and
\* an update is rejected only when rate_limit updates of the same user were
\* passed on within the second before it, whatever other users have sent.
RateLimited ==
  /\ \A u \in Users : \A a \in 0..MaxTicks :
       PassedIn(u, a, a + TicksPerSecond) <= limiter.rate_limit
  /\ \A u \in Users : IsSuffix(limiter.user_requests[u], limiter.passed[u])
  /\ limiter.last.verdict = "rejected"
     => PassedIn(limiter.last.user, limiter.last.at - TicksPerSecond + 1,
                 limiter.last.at + 1) >= limiter.rate_limit
  /\ limiter.last.verdict = "passed"
     => PassedIn(limiter.last.user, limiter.last.at - TicksPerSecond + 1,
                 limiter.last.at + 1) <= limiter.rate_limit

\* u1 is rejected again after earlier windows in which it was served, at a
\* time at which an update of u2 has just been passed on
RateLimitedWitness ==
  /\ limiter.last = [user |-> "u1", at |-> limiter.now, verdict |-> "rejected"]
  /\ Len(limiter.passed["u1"]) > limiter.rate_limit
  /\ limiter.passed["u2"] # <<>>
  /\ limiter.passed["u2"][Len(limiter.passed["u2"])] = limiter.now

(***************************************************************************)
(* The list of the uploaded files: show_file_info, confirm_delete and      *)
(* execute_delete (handlers.py), on the rows that the uploads have saved.  *)
(***************************************************************************)
\* "file_info_"
S_file_info == <<102, 105, 108, 101, 95, 105, 110, 102, 111, 95>>
\* "delete_"
S_delete == <<100, 101, 108, 101, 116, 101, 95>>
\* "confirm_delete_"
S_confirm_delete == <<99, 111, 110, 102, 105, 114, 109, 95, 100, 101, 108, 101, 116, 101, 95>>
\* "Inbox", the folder_name of u2's row
S_Inbox == <<73, 110, 98, 111, 120>>

\* both users have completed /token, each with a folder of their own
FilesTokens ==
  [u \in Users |->
     [present |-> TRUE, is_valid |-> TRUE,
      folder_name |-> IF u = "u1" THEN S_TelegramBot ELSE S_Inbox]]

\* int(callback.data.split("_")[-1])
FileIdOf(data) == StrToInt(DropPrefix(data, LastIndexOf(data, 95)))

\* a SELECT that matches the id whoever owns the row
SelectFile_AnyOwner(rows, file_id, user_id) ==
  SelectSeq(rows, LAMBDA row : row.id = file_id)

\* select(UploadedFile).where(UploadedFile.id == file_id,
\*                            UploadedFile.user_id == user_id)
SelectFile(rows, file_id, user_id) ==
  SelectSeq(rows, LAMBDA row : row.id = file_id /\ row.user_id = user_id)

\* delete(UploadedFile).where(UploadedFile.id == file_id)
DeleteFileRow(rows, file_id) == SelectSeq(rows, LAMBDA row : row.id # file_id)

frame_files == <<codec, Config_MAX_FILE_SIZE, yandex_tokens, jobs, temp_files, api_methods,
                 limiter, stream, fsm_state, fsm_data, chat>>

\* show_file_info
ShowFileInfo(u, data, db_ok) ==
  LET found == SelectFile(uploaded_files, FileIdOf(data), u) IN
  /\ StartsWith(data, S_file_info)
  /\ IF ~db_ok THEN Answer(u, "show_file_info", data, NoPath, FALSE, "exception", <<>>)
     ELSE IF found = <<>>
     THEN Answer(u, "show_file_info", data, NoPath, TRUE, "not_found", <<>>)
     ELSE Answer(u, "show_file_info", data, found[1].yandex_path, TRUE, "shown", <<>>)
  /\ UNCHANGED frame_nav

\* confirm_delete: the question with the buttons confirm_delete_<id> and
\* cancel_delete
ConfirmDelete(u, data, db_ok) ==
  LET found == SelectFile(uploaded_files, FileIdOf(data), u) IN
  /\ StartsWith(data, S_delete)
  /\ IF ~db_ok THEN Answer(u, "confirm_delete", data, NoPath, FALSE, "exception", <<>>)
     ELSE IF found = <<>>
     THEN Answer(u, "confirm_delete", data, NoPath, TRUE, "not_found", <<>>)
     ELSE Answer(u, "confirm_delete", data, found[1].yandex_path, TRUE, "confirm_asked",
                 <<>>)
  /\ UNCHANGED frame_nav

\* execute_delete; db_ok: the two SELECTs answer, api_ok: the remote store
\* answers the DELETE, commit_ok: the DELETE of the row is committed
ExecuteDelete(u, data, db_ok, api_ok, commit_ok) ==
  LET file_id == FileIdOf(data)
      found == SelectFile(uploaded_files, file_id, u)
      path == found[1].yandex_path
      deleted == delete_file(path, api_ok, remote_deleted)
      call == <<Call("delete_file", path)>>
  IN
  /\ StartsWith(data, S_confirm_delete)
  /\ IF ~db_ok
     THEN /\ event' = Ev(u, "execute_delete", data, NoPath, FALSE, "exception", <<>>,
                         NoRender)
          /\ UNCHANGED <<uploaded_files, remote_deleted>>
     ELSE IF found = <<>>
     THEN /\ event' = Ev(u, "execute_delete", data, NoPath, TRUE, "not_found", <<>>,
                         NoRender)
          /\ UNCHANGED <<uploaded_files, remote_deleted>>
     ELSE IF ~yandex_tokens[u].present
     THEN /\ event' = Ev(u, "execute_delete", data, path, TRUE, "no_token", <<>>,
                         NoRender)
          /\ UNCHANGED <<uploaded_files, remote_deleted>>
     ELSE IF ~deleted
     THEN /\ event' = Ev(u, "execute_delete", data, path, api_ok, "delete_failed", call,
                         NoRender)
          /\ UNCHANGED <<uploaded_files, remote_deleted>>
     ELSE IF ~commit_ok
     THEN /\ event' = Ev(u, "execute_delete", data, path, FALSE, "exception", call,
                         NoRender)
          /\ remote_deleted' = remote_deleted \cup {path}
          /\ UNCHANGED uploaded_files
     ELSE /\ event' = Ev(u, "execute_delete", data, path, TRUE, "deleted", call, NoRender)
          /\ remote_deleted' = remote_deleted \cup {path}
          /\ uploaded_files' = DeleteFileRow(uploaded_files, file_id)
  /\ UNCHANGED frame_files

\* the rows that three earlier uploads have saved: b.txt by u1, b.txt by u2
\* and a?.txt by u1
SavedRow(id, u, name) ==
  [id |-> id, user_id |-> u, file_name |-> name,
   yandex_path |-> YandexPath(FilesTokens[u].folder_name, sanitize_filename(name)),
   public_url |-> "url", file_size |-> 1]

SavedRows == <<SavedRow(1, "u1", N_b), SavedRow(2, "u2", N_b), SavedRow(3, "u1", N_aq)>>

\* the ids that a button of a list or of a confirmation can carry: the ids of
\* the rows and one id that no row has
MaxRecordId == 4
RecordIds == 1..MaxRecordId

OnFileInfo ==
  \E u \in Users, id \in RecordIds, db_ok \in BOOLEAN :
    ShowFileInfo(u, S_file_info \o IntToStr(id), db_ok)

OnConfirmDelete ==
  \E u \in Users, id \in RecordIds, db_ok \in BOOLEAN :
    ConfirmDelete(u, S_delete \o IntToStr(id), db_ok)

OnExecuteDelete ==
  \E u \in Users, id \in RecordIds, env \in {"ok", "db", "api", "commit"} :
    ExecuteDelete(u, S_confirm_delete \o IntToStr(id), env # "db", env # "api",
                  env # "commit")

\* the list flow on the table that the earlier uploads have left
FilesInit ==
  /\ codec = CodecIdle
  /\ stream = StreamIdle
  /\ Config_MAX_FILE_SIZE = DefaultMaxFileSize
  /\ yandex_tokens = FilesTokens
  /\ uploaded_files = SavedRows
  /\ fsm_state = [u \in Users |-> None]
  /\ fsm_data = [u \in Users |-> EmptyData]
  /\ jobs = [j \in Jobs |-> NoJob]
  /\ temp_files = <<>>
  /\ NavIdle
  /\ chat = [u \in Users |-> NoChat]
  /\ api_methods = ServiceMethods

FilesNext ==
  \/ OnFileInfo
  \/ OnConfirmDelete
  \/ OnExecuteDelete

SpecFiles == FilesInit /\ [][FilesNext]_vars

\* uploads and deletions of the uploaded files side by side, from an empty
\* table
PipelineInit ==
  /\ codec = CodecIdle
  /\ stream = StreamIdle
  /\ Config_MAX_FILE_SIZE = DefaultMaxFileSize
  /\ yandex_tokens = FilesTokens
  /\ uploaded_files = <<>>
  /\ fsm_state = [u \in Users |-> None]
  /\ fsm_data = [u \in Users |-> EmptyData]
  /\ jobs = [j \in Jobs |-> NoJob]
  /\ temp_files = <<>>
  /\ NavIdle
  /\ chat = [u \in Users |-> NoChat]
  /\ api_methods = ServiceMethods

\* user u1 sends b.txt
OnReceiveUpload == \E j \in Jobs : ReceiveFile(j, "u1", N_b, HandlerMaxFileSize)

\* the owner of a saved row confirms its deletion; the remote delete or the
\* commit can fail
OnDeleteUpload ==
  \E i \in 1..Len(uploaded_files), env \in {"ok", "api", "commit"} :
    ExecuteDelete(uploaded_files[i].user_id,
                  S_confirm_delete \o IntToStr(uploaded_files[i].id), TRUE,
                  env # "api", env # "commit")

\* publish_file gives a URL or None
OnPublishAttempt == \E j \in Jobs, ok \in BOOLEAN : PublishFile(j, ok)

PipelineNext ==
  \/ OnReceiveUpload
  \/ OnLookupToken
  \/ OnStageFile
  \/ OnGetUploadUrl
  \/ OnStreamFile
  \/ OnPublishAttempt
  \/ OnSaveRecord
  \/ OnReportSuccess
  \/ OnDeleteUpload

SpecPipeline == PipelineInit /\ [][PipelineNext]_vars

\* the handlers of the buttons of the list of uploaded files
ListHandlers == {"show_file_info", "confirm_delete", "execute_delete"}

\* the id in data is the id of a row of another user than u
ForeignRow(u, data) ==
  \E i \in 1..Len(uploaded_files) :
    uploaded_files[i].id = FileIdOf(data) /\ uploaded_files[i].user_id # u

\* C39: a file-info, delete or confirm-delete callback of user u that carries
\* the id of a row of another user calls no method of the remote store, shows
\* nothing of the row, and leaves the table and the remote store as they are.
RecordOwnership ==
  [][(event'.handler \in ListHandlers /\ ForeignRow(event'.user, event'.data))
     => /\ event'.calls = <<>>
        /\ event'.path = NoPath
        /\ event'.outcome \in {"not_found", "exception"}
        /\ UNCHANGED <<uploaded_files, remote_deleted>>]_vars

\* u2, who has deleted the own upload, has pressed the confirm button with
\* the id of the row of u1 while the database answered; the row is in place
RecordOwnershipWitness ==
  /\ event.handler = "execute_delete"
  /\ event.user = "u2"
  /\ FileIdOf(event.data) = 1
  /\ event.outcome = "not_found"
  /\ SavedRows[2].yandex_path \in remote_deleted
  /\ \E i \in 1..Len(uploaded_files) :
       uploaded_files[i].id = 1 /\ uploaded_files[i].user_id = "u1"

\* the step removes a row from the table
RowRemoved == Len(uploaded_files') < Len(uploaded_files)

\* in the step delete_file returned True
RemoteDeleteSucceeded == remote_deleted' # remote_deleted

\* an execute_delete removes a row only when its delete_file returned True
RowRemovedOnlyAfterRemoteDelete ==
  [][event'.handler = "execute_delete" => (RowRemoved => RemoteDeleteSucceeded)]_vars

\* C40: an execute_delete removes the row from the table if and only if the
\* delete_file of the same event returned True; after a failed remote delete
\* and without a token the table is as before.
RecordFollowsRemoteDelete ==
  [][event'.handler = "execute_delete"
     => /\ RowRemoved <=> RemoteDeleteSucceeded
        /\ event'.outcome \in {"delete_failed", "no_token"} => UNCHANGED uploaded_files]_vars

\* ---------------------------------------------------------------------------
\* one call of each operation per event

\* no operation of the remote store or of the transport occurs twice
NoRepeat(calls) ==
  \A i, k \in 1..Len(calls) : calls[i].op = calls[k].op => i = k

\* C34: within the handling of one event each operation of the remote store
\* (get_upload_url, upload_file, publish_file, delete_file) is called at most
\* once, also after it failed: an upload job and a delete confirmation never
\* hold two calls of the same operation
NoAutomaticRetry ==
  /\ \A j \in Jobs : NoRepeat(jobs[j].calls)
  /\ NoRepeat(event.calls)

\* an upload whose publish_file failed has finished with one call of each
\* operation, and a delete confirmation was answered by a failed delete_file
NoAutomaticRetryWitness ==
  /\ \E j \in Jobs :
       /\ jobs[j].pc = "done"
       /\ "publish" \in jobs[j].failed
       /\ Len(RemoteCalls(j)) = 3
  /\ event.handler = "execute_delete"
  /\ event.outcome = "delete_failed"
  /\ Len(event.calls) = 1

(***************************************************************************)
(* callback_nav_delete as a task: every update runs in a task of its own,  *)
(* and the handler waits for the database and for get_resource_info        *)
(* before it stores delete_path, so two delete requests of one user can    *)
(* be in flight together.                                                  *)
(***************************************************************************)
\* delete requests of one chat that the runs follow
MaxRequests == 2

DeleteData ==
  {S_nav_delete \o encode_path_smart(P_docs),
   S_nav_delete \o encode_path_smart(P_report)}

Request(data, path, answer) == [data |-> data, path |-> path, answer |-> answer]

\* lines 1127-1167: callback_nav_delete up to `await api.get_resource_info(path)`
AskDelete(u, data, db_ok) ==
  /\ StartsWith(data, S_nav_delete)
  /\ Len(chat[u].requests) < MaxRequests
  /\ LET encoded_path == DropPrefix(data, 11)
         path == ResolveToken(encoded_path, fsm_data[u])
     IN
     IF path = DecodeError THEN Answer(u, "nav_delete", data, NoPath, TRUE, "exception", <<>>)
     ELSE IF IsStale(encoded_path, fsm_data[u])
     THEN Answer(u, "nav_delete", data, NoPath, TRUE, "stale", <<>>)
     ELSE IF ~db_ok THEN Answer(u, "nav_delete", data, path, FALSE, "db_error", <<>>)
     ELSE IF ~yandex_tokens[u].present
     THEN Answer(u, "nav_delete", data, path, TRUE, "no_token", <<>>)
     ELSE IF "get_resource_info" \notin api_methods
     THEN Answer(u, "nav_delete", data, path, TRUE, "info_error", <<>>)
     ELSE /\ chat' = [chat EXCEPT ![u].requests = Append(@, Request(data, path, "pending"))]
          /\ UNCHANGED <<fsm_state, fsm_data, event, remote_deleted>>
  /\ UNCHANGED frame_nav

\* lines 1168-1198: get_resource_info returns to the i-th request of the chat,
\* which stores its path and asks for the confirmation, or reports the error
AnswerDelete(u, i, api_ok) ==
  /\ i \in 1..Len(chat[u].requests)
  /\ chat[u].requests[i].answer = "pending"
  /\ LET r == chat[u].requests[i]
         call == <<Call("get_resource_info", r.path)>>
     IN
     IF ~api_ok \/ ~get_resource_info(r.path, remote_deleted).found
     THEN /\ event' = Ev(u, "nav_delete", r.data, r.path, api_ok, "info_error", call,
                         NoRender)
          /\ chat' = [chat EXCEPT ![u].requests[i].answer = "failed"]
          /\ UNCHANGED <<fsm_state, fsm_data, remote_deleted>>
     ELSE /\ fsm_data' = [fsm_data EXCEPT ![u].delete_path = r.path]
          /\ fsm_state' = [fsm_state EXCEPT ![u] = "confirming_delete"]
          /\ event' = Ev(u, "nav_delete", r.data, r.path, TRUE, "confirm_asked", call,
                         NoRender)
          /\ chat' = [chat EXCEPT ![u].requests[i].answer = "asked",
                                  ![u].old = @ \cup ConfirmData]
          /\ UNCHANGED remote_deleted
  /\ UNCHANGED frame_nav

OnAskDelete ==
  \E u \in Users : \E data \in Pressable(u) : \E db_ok \in BOOLEAN :
    AskDelete(u, data, db_ok)

OnAnswerDelete ==
  \E u \in Users : \E i \in 1..MaxRequests : \E api_ok \in BOOLEAN :
    AnswerDelete(u, i, api_ok)

\* the handlers of one chat one after the other: no update of a user is
\* taken while a delete request of that user waits
OnAskDeleteSerial ==
  \E u \in Users : \E data \in Pressable(u) : \E db_ok \in BOOLEAN :
    /\ \A i \in 1..Len(chat[u].requests) : chat[u].requests[i].answer # "pending"
    /\ AskDelete(u, data, db_ok)

DeleteInit ==
  /\ codec = CodecIdle
  /\ stream = StreamIdle
  /\ Config_MAX_FILE_SIZE = DefaultMaxFileSize
  /\ yandex_tokens = InitialTokens
  /\ uploaded_files = <<>>
  /\ fsm_state = [u \in Users |-> None]
  /\ fsm_data = [u \in Users |-> EmptyData]
  /\ jobs = [j \in Jobs |-> NoJob]
  /\ temp_files = <<>>
  /\ NavIdle
  /\ chat = [u \in Users |-> [NoChat EXCEPT !.old = DeleteData]]
  /\ api_methods = ServiceMethods \cup ListingMethods

DeleteNext ==
  \/ OnAskDelete
  \/ OnAnswerDelete
  \/ OnNavConfirmDelete
  \/ OnNavCancelDelete

SpecDelete == DeleteInit /\ [][DeleteNext]_vars

DeleteSerialNext ==
  \/ OnAskDeleteSerial
  \/ OnAnswerDelete
  \/ OnNavConfirmDelete
  \/ OnNavCancelDelete

SpecDeleteSerial == DeleteInit /\ [][DeleteSerialNext]_vars

\* the delete requests of a chat that were answered with a confirmation
AskedRequests(u) == SelectSeq(chat[u].requests, LAMBDA r : r.answer = "asked")

NoRequestWaits(u) ==
  \A i \in 1..Len(chat[u].requests) : chat[u].requests[i].answer # "pending"

\* the step is a confirmation of u that reaches delete_file
ConfirmCalls(u) ==
  /\ fsm_state[u] = "confirming_delete"
  /\ fsm_state'[u] # "confirming_delete"
  /\ event'.user = u
  /\ event'.handler = "nav_confirm_delete"
  /\ event'.calls # <<>>

\* C35: when a user has asked to delete a path and then another one, and both
\* requests were answered with a confirmation message, a confirmation calls
\* delete_file with the path of the later request only
LastWriterWins ==
  [][\A u \in Users :
       (ConfirmCalls(u) /\ NoRequestWaits(u) /\ Len(AskedRequests(u)) > 0)
         => /\ Head(event'.calls) = Call("delete_file",
                  AskedRequests(u)[Len(AskedRequests(u))].path)
            /\ remote_deleted' \subseteq remote_deleted \cup
                  {AskedRequests(u)[Len(AskedRequests(u))].path}]_vars

(***************************************************************************)
(* The upload pipeline under fair scheduling: the event loop resumes every *)
(* task whose awaited call has returned, and every call returns.           *)
(***************************************************************************)
\* a step of job j after the arrival of its file
JobStep(j) ==
  \/ \E db_ok \in BOOLEAN : LookupToken(j, db_ok)
  \/ \E fetch \in FetchOutcomes, edit_ok \in BOOLEAN : StageFile(j, fetch, edit_ok)
  \/ \E ok \in BOOLEAN, edit \in EditOutcomes : GetUploadUrl(j, ok, edit)
  \/ \E ok \in BOOLEAN, edit \in EditOutcomes : StreamFile(j, ok, edit)
  \/ \E ok \in BOOLEAN : PublishFile(j, ok)
  \/ \E ok \in BOOLEAN : SaveRecord(j, ok)
  \/ \E edit \in EditOutcomes : ReportSuccess(j, edit)

SpecUploadFair ==
  UploadInit /\ [][UploadNext]_vars /\ \A j \in Jobs : WF_vars(JobStep(j))

\* job j has passed the size check and has not returned
Running(j) == jobs[j].pc \notin {"none", "done"}

\* the texts that end an upload: token not configured, error while reading the
\* token, download failed, no upload URL, upload failed, error, success
FinalStatuses ==
  {"not_configured", "token_error", "download_failed", "no_upload_url",
   "upload_failed", "error", "success"}

\* every running upload returns
UploadReturns == \A j \in Jobs : Running(j) ~> (jobs[j].pc = "done")

\* C36: every upload that passed the size check ends, shows one of the final
\* texts and leaves no staged file behind
UploadTermination ==
  \A j \in Jobs :
    Running(j) ~> /\ jobs[j].pc = "done"
                  /\ jobs[j].status \in FinalStatuses
                  /\ ~StagedFileExists(j)

\* the same for the final text alone and for the staged file alone
UploadEndsWithFinalText ==
  \A j \in Jobs : Running(j) ~> (jobs[j].pc = "done" /\ jobs[j].status \in FinalStatuses)

UploadEndsWithoutStagedFile ==
  \A j \in Jobs : Running(j) ~> (jobs[j].pc = "done" /\ ~StagedFileExists(j))

(***************************************************************************)
(* sanitize_filename applied to declared file names.                       *)
(***************************************************************************)
\* "/tmp/telegram_bot_files"
S_temp_dir == <<47, 116, 109, 112, 47, 116, 101, 108, 101, 103, 114, 97, 109, 95, 98, 111, 116, 95, 102, 105, 108, 101, 115>>

\* longest declared name
MaxNameLen == 3

\* the bytes of the names: dot, space, slash, backslash, question mark, "a"
NameBytes == {46, 32, 47, 92, 63, 97}

DeclaredNames == UNION {[1..n -> NameBytes] : n \in 0..MaxNameLen}

\* os.path.join(temp_dir, file_name): an absolute second part replaces the
\* first
os_path_join(a, b) ==
  IF Len(b) > 0 /\ b[1] = 47 THEN b
  ELSE IF Len(a) > 0 /\ a[Len(a)] = 47 THEN a \o b
  ELSE a \o <<47>> \o b

\* os.path.dirname(p): what stands before the last slash
os_path_dirname(p) ==
  LET i == LastIndexOf(p, 47) IN
  IF i = 0 THEN <<>> ELSE IF i = 1 THEN <<47>> ELSE SubSeq(p, 1, i - 1)

SanitizeInit ==
  /\ UploadIdle
  /\ stream = StreamIdle
  /\ codec \in {[CodecIdle EXCEPT !.phase = "name", !.path = n] : n \in DeclaredNames}

\* handlers.py:341-344: the name is sanitized and joined to the temp
\* directory; token holds sanitize_filename(name), decoded the result of a
\* second application and item_path the local path
ApplySanitize ==
  /\ codec.phase = "name"
  /\ LET sanitized_name == sanitize_filename(codec.path) IN
     codec' = [codec EXCEPT !.phase = "sanitized",
                            !.token = sanitized_name,
                            !.decoded = sanitize_filename(sanitized_name),
                            !.item_path = os_path_join(S_temp_dir, sanitized_name)]
  /\ UNCHANGED <<upload_vars, nav_vars, limiter, stream>>

SanitizeNext == ApplySanitize

SpecSanitize == SanitizeInit /\ [][SanitizeNext]_vars

\* C37: the sanitized name is not empty, holds none of < > : " / \ | ? *,
\* neither starts nor ends with a dot or a space, the staged path is a direct
\* child of the temp directory, and a second application changes nothing
SanitizedName ==
  codec.phase = "sanitized" =>
    /\ codec.token # <<>>
    /\ \A i \in 1..Len(codec.token) : codec.token[i] \notin UnsafeChars
    /\ codec.token[1] \notin {46, 32}
    /\ codec.token[Len(codec.token)] \notin {46, 32}
    /\ os_path_dirname(codec.item_path) = S_temp_dir
    /\ codec.item_path = S_temp_dir \o <<47>> \o codec.token
    /\ codec.decoded = codec.token

\* the name "/. " has been sanitized to "_"
SanitizedNameWitness ==
  /\ codec.phase = "sanitized"
  /\ codec.path = <<47, 46, 32>>
  /\ codec.token = <<95>>

(***************************************************************************)
(* browse_directory as a task: it waits for the database and for           *)
(* list_directory before it reads the FSM data, so handlers of the same    *)
(* user can run between the press of the button and the render.            *)
(***************************************************************************)
\* renders of one chat that the runs follow
MaxRenders == 1

RenderData ==
  {S_nav_open \o encode_path_smart(P_docs),
   S_nav_select \o encode_path_smart(P_docs),
   S_nav_delete \o encode_path_smart(P_report)}

\* lines 920-934 and 807-848: callback_nav_open resolves its token and
\* browse_directory starts its requests; seen is the FSM data at that moment
StartRender(u, data) ==
  /\ StartsWith(data, S_nav_open)
  /\ Len(chat[u].renders) < MaxRenders
  /\ LET encoded_path == DropPrefix(data, 9)
         path == ResolveToken(encoded_path, fsm_data[u])
     IN
     IF path = DecodeError THEN Answer(u, "nav_open", data, NoPath, TRUE, "exception", <<>>)
     ELSE IF IsStale(encoded_path, fsm_data[u])
     THEN Answer(u, "nav_open", data, NoPath, TRUE, "stale", <<>>)
     ELSE /\ chat' = [chat EXCEPT ![u].renders =
                        Append(@, [data |-> data, path |-> path, seen |-> fsm_data[u],
                                   done |-> FALSE])]
          /\ UNCHANGED <<fsm_state, fsm_data, event, remote_deleted>>
  /\ UNCHANGED frame_nav

\* a render that writes back the FSM data it saw when it started
RenderSnapshot_AtStart(u, r) == r.seen

\* lines 859-860: state.get_data() is called after the requests have returned
RenderSnapshot(u, r) == fsm_data[u]

\* lines 807-915: the requests of the i-th render return and the page is
\* rendered; set_data is reached only when the listing succeeded
FinishRender(u, i, db_ok, api_ok) ==
  /\ i \in 1..Len(chat[u].renders)
  /\ ~chat[u].renders[i].done
  /\ LET r == chat[u].renders[i]
         res == browse_directory(u, r.path, 0, "browse", db_ok, api_ok,
                                 RenderSnapshot(u, r), remote_deleted)
     IN
     /\ fsm_data' = IF res.outcome = "rendered"
                    THEN [fsm_data EXCEPT ![u] = res.state_data]
                    ELSE fsm_data
     /\ chat' = [chat EXCEPT ![u].keyboard = res.keyboard,
                             ![u].indirect = @ \cup res.indirect,
                             ![u].renders[i].done = TRUE]
     /\ event' = Ev(u, "nav_open", r.data, r.path, db_ok /\ api_ok, res.outcome,
                    res.calls, res.rendered)
  /\ UNCHANGED <<fsm_state, remote_deleted>>
  /\ UNCHANGED frame_nav

OnStartRender == \E u \in Users : \E data \in Pressable(u) : StartRender(u, data)

OnFinishRender ==
  \E u \in Users : \E i \in 1..MaxRenders : \E env \in {"ok", "db", "api"} :
    FinishRender(u, i, env # "db", env # "api")

RenderInit ==
  /\ codec = CodecIdle
  /\ stream = StreamIdle
  /\ Config_MAX_FILE_SIZE = DefaultMaxFileSize
  /\ yandex_tokens = InitialTokens
  /\ uploaded_files = <<>>
  /\ fsm_state = [u \in Users |-> None]
  /\ fsm_data = [u \in Users |-> EmptyData]
  /\ jobs = [j \in Jobs |-> NoJob]
  /\ temp_files = <<>>
  /\ NavIdle
  /\ chat = [u \in Users |->
               [NoChat EXCEPT !.old = IF u = "u1" THEN RenderData
                                      ELSE {S_nav_open \o encode_path_smart(P_docs)}]]
  /\ api_methods = ServiceMethods \cup ListingMethods

RenderNext ==
  \/ OnStartRender
  \/ OnFinishRender
  \/ OnNavSelect
  \/ OnNavDelete

SpecRender == RenderInit /\ [][RenderNext]_vars

\* the step ends a render of user u
RenderStep(u) ==
  \E i \in 1..Len(chat[u].renders) : ~chat[u].renders[i].done /\ chat'[u].renders[i].done

\* C38: a render changes the path table of its user only: the FSM state, the
\* pending delete path and the chosen upload folder of the user are what they
\* were before the step, also when another handler of the user has set them
\* after the button of the render was pressed, and the sessions of the other
\* users are untouched
RenderFrame ==
  [][\A u \in Users :
       RenderStep(u) =>
         /\ fsm_state' = fsm_state
         /\ fsm_data'[u].delete_path = fsm_data[u].delete_path
         /\ fsm_data'[u].upload_folder = fsm_data[u].upload_folder
         /\ \A v \in Users \ {u} : fsm_data'[v] = fsm_data[v]]_vars

\* a render of /Docs has stored its mappings after a delete request and a
\* folder choice of the same user that came while it waited
RenderFrameWitness ==
  /\ Len(chat["u1"].renders) = 1
  /\ chat["u1"].renders[1].done
  /\ chat["u1"].renders[1].seen = EmptyData
  /\ event.handler = "nav_open"
  /\ event.outcome = "rendered"
  /\ fsm_data["u1"].path_mappings # <<>>
  /\ fsm_data["u1"].delete_path = P_report
  /\ fsm_data["u1"].upload_folder = P_docs

====
